---- MODULE Spec2Model ----
(***************************************************************************)
(* A model of the upload handler of http.upload: request classification,   *)
(* Signature authentication, quota enforcement, path translation and the   *)
(* temp-file -> final-name write protocol, over an abstract filesystem.    *)
(*                                                                         *)
(* Strings of the program (URL paths, file names) are sequences of         *)
(* one-character strings, so that strings.HasPrefix, strings.TrimPrefix    *)
(* and filepath.Clean are computed character by character as in Go.        *)
(***************************************************************************)
EXTENDS Integers, Sequences, FiniteSets, TLC

\* ------------------------------------------------------------------ bounds

\* Number of request handlers that may be in flight at the same time.
MaxProcs == 2
\* Longest request body, in bytes, the environment sends.
MaxBody == 3
\* Number of requests the environment sends in one behaviour.
MaxRequests == 2

\* ------------------------------------------------------- program constants

\* upload.go: "if anticipatedSize > 4096 { w.Truncate(anticipatedSize) }"
truncateThreshold == 4096
\* protofile: reserveFileSizeThreshold = 1 << 15
reserveFileSizeThreshold == 32768

\* ------------------------------------------------------------------ strings

Slash == "/"

\* strings.HasPrefix(s, prefix)
HasPrefix(s, prefix) ==
    /\ Len(prefix) <= Len(s)
    /\ SubSeq(s, 1, Len(prefix)) = prefix

\* strings.TrimPrefix(s, prefix)
TrimPrefix(s, prefix) ==
    IF HasPrefix(s, prefix) THEN SubSeq(s, Len(prefix) + 1, Len(s)) ELSE s

\* The path elements of s: the maximal runs of characters other than "/".
\* Returns a sequence of strings (each a sequence of characters); empty
\* elements (from "//", a leading or a trailing "/") are kept as <<>>.
RECURSIVE SplitAt(_, _, _)
SplitAt(s, i, cur) ==
    IF i > Len(s) THEN <<cur>>
    ELSE IF s[i] = Slash THEN <<cur>> \o SplitAt(s, i + 1, <<>>)
    ELSE SplitAt(s, i + 1, Append(cur, s[i]))

Elements(s) == SplitAt(s, 1, <<>>)

Dot == <<".">>
DotDot == <<".", ".">>

\* filepath.Clean's treatment of the elements of a path, left to right:
\* drop "" and ".", let ".." remove the element before it; a ".." with
\* nothing before it is dropped in a rooted path and kept in a relative one.
RECURSIVE CleanElements(_, _, _, _)
CleanElements(elems, i, stack, rooted) ==
    IF i > Len(elems) THEN stack
    ELSE LET e == elems[i] IN
         IF e = <<>> \/ e = Dot THEN CleanElements(elems, i + 1, stack, rooted)
         ELSE IF e = DotDot THEN
              IF Len(stack) > 0 /\ stack[Len(stack)] # DotDot
              THEN CleanElements(elems, i + 1, SubSeq(stack, 1, Len(stack) - 1), rooted)
              ELSE IF rooted THEN CleanElements(elems, i + 1, stack, rooted)
              ELSE CleanElements(elems, i + 1, Append(stack, e), rooted)
         ELSE CleanElements(elems, i + 1, Append(stack, e), rooted)

RECURSIVE JoinElements(_, _)
JoinElements(elems, i) ==
    IF i > Len(elems) THEN <<>>
    ELSE IF i = Len(elems) THEN elems[i]
    ELSE elems[i] \o <<Slash>> \o JoinElements(elems, i + 1)

\* filepath.Clean(s)
Clean(s) ==
    IF s = <<>> THEN Dot
    ELSE LET rooted == s[1] = Slash
             out == JoinElements(CleanElements(Elements(s), 1, <<>>, rooted), 1)
         IN IF rooted THEN <<Slash>> \o out
            ELSE IF out = <<>> THEN Dot ELSE out

\* filepath.Join(a, b): the non-empty operands joined by "/", then cleaned.
Join(a, b) ==
    IF a = <<>> /\ b = <<>> THEN <<>>
    ELSE IF a = <<>> THEN Clean(b)
    ELSE IF b = <<>> THEN Clean(a)
    ELSE Clean(a \o <<Slash>> \o b)

\* Index of the last "/" of s, 0 if there is none.
LastSlash(s) ==
    LET idx == {i \in 1..Len(s) : s[i] = Slash}
    IN IF idx = {} THEN 0 ELSE CHOOSE i \in idx : \A j \in idx : j <= i

\* filepath.Dir(s)
Dir(s) == Clean(SubSeq(s, 1, LastSlash(s)))

\* Drop the trailing slashes of s.
RECURSIVE StripTrailingSlashes(_)
StripTrailingSlashes(s) ==
    IF Len(s) > 0 /\ s[Len(s)] = Slash
    THEN StripTrailingSlashes(SubSeq(s, 1, Len(s) - 1))
    ELSE s

\* filepath.Base(s)
Base(s) ==
    IF s = <<>> THEN Dot
    ELSE LET t == StripTrailingSlashes(s)
         IN IF t = <<>> THEN <<Slash>>
            ELSE SubSeq(t, LastSlash(t) + 1, Len(t))

\* --------------------------------------------------------------- filesystem
\* A filesystem is a function from the absolute, cleaned paths that exist to
\* their entries.  "/" always exists.  A regular file carries the bytes
\* written to it (data), its length (size, larger than Len(data) when
\* Truncate reserved more than was written: the rest reads as zeros) and the
\* body its writer was sent (src).  A temp entry is the name of a file some
\* handler still writes to; its contents are in that handler's buffer.

Root == <<Slash>>

DirEntry == [kind |-> "dir"]
FileEntry(data, size, src) == [kind |-> "file", data |-> data, size |-> size, src |-> src]
TempEntry(owner) == [kind |-> "temp", owner |-> owner]

Exists(f, p) == p \in DOMAIN f
IsDir(f, p) == Exists(f, p) /\ f[p].kind = "dir"

\* p lies strictly below directory d.
Below(d, p) ==
    IF d = Root THEN p # Root /\ HasPrefix(p, Root)
    ELSE HasPrefix(p, d \o <<Slash>>) /\ Len(p) > Len(d) + 1

\* The proper ancestors of p, "/" included.
RECURSIVE Ancestors(_)
Ancestors(p) == IF p = Root THEN {} ELSE {Dir(p)} \cup Ancestors(Dir(p))

\* f with entry e at path p.
Put(f, p, e) == [q \in DOMAIN f \cup {p} |-> IF q = p THEN e ELSE f[q]]

\* f without the paths in ps.
Drop(f, ps) == [q \in DOMAIN f \ ps |-> f[q]]

\* Errors of the operating system, by the text or test the program uses.
ErrNone == "ok"
ErrExist == "file exists"          \* EEXIST, os.IsExist
ErrNotExist == "no such file"      \* ENOENT
ErrNotDir == "not a directory"     \* ENOTDIR
ErrIsDir == "is a directory"       \* EISDIR
ErrNotEmpty == "directory not empty" \* ENOTEMPTY
ErrInvalid == "invalid argument"   \* EINVAL
ErrIO == "input/output error"      \* any failure of the device or the stream

\* os.MkdirAll(p): the error it returns.
MkdirAllErr(f, p) ==
    IF \E q \in Ancestors(p) \cup {p} : Exists(f, q) /\ ~IsDir(f, q)
    THEN ErrNotDir ELSE ErrNone

\* os.MkdirAll(p): the filesystem it leaves.
MkdirAll(f, p) ==
    IF MkdirAllErr(f, p) # ErrNone THEN f
    ELSE [q \in DOMAIN f \cup Ancestors(p) \cup {p} |->
            IF q \in DOMAIN f THEN f[q] ELSE DirEntry]

\* Creating a name at p (open O_CREAT|O_EXCL, linkat, mkstemp): its error.
CreateErr(f, p) ==
    IF ~Exists(f, Dir(p)) THEN ErrNotExist
    ELSE IF ~IsDir(f, Dir(p)) THEN ErrNotDir
    ELSE IF Exists(f, p) THEN ErrExist
    ELSE ErrNone

\* A Remove that removes nothing.
RemoveKeeps(f, p) == f

\* os.Remove(p): removes a file or an empty directory; the filesystem it leaves.
Remove(f, p) ==
    IF ~Exists(f, p) \/ p = Root THEN f
    ELSE IF IsDir(f, p) /\ \E q \in DOMAIN f : Below(p, q) THEN f
    ELSE Drop(f, {p})

\* os.RemoveAll(p): removes p and everything below it; never fails on a
\* missing path.
RemoveAll(f, p) == Drop(f, {q \in DOMAIN f : q = p \/ Below(p, q)})

\* rename(2) from a to b: its error.
RenameErr(f, a, b) ==
    IF ~Exists(f, a) THEN ErrNotExist
    ELSE IF ~Exists(f, Dir(b)) THEN ErrNotExist
    ELSE IF ~IsDir(f, Dir(b)) THEN ErrNotDir
    ELSE IF a = b THEN ErrNone
    ELSE IF Below(a, b) THEN ErrInvalid
    ELSE IF Exists(f, b) /\ IsDir(f, b) /\ ~IsDir(f, a) THEN ErrIsDir
    ELSE IF Exists(f, b) /\ ~IsDir(f, b) /\ IsDir(f, a) THEN ErrNotDir
    ELSE IF Exists(f, b) /\ IsDir(f, b) /\ (\E q \in DOMAIN f : Below(b, q)) THEN ErrNotEmpty
    ELSE ErrNone

\* The path q of the tree at a, moved to b.
Moved(a, b, q) == b \o SubSeq(q, Len(a) + 1, Len(q))

\* rename(2) from a to b: the filesystem it leaves.
Rename(f, a, b) ==
    IF RenameErr(f, a, b) # ErrNone \/ a = b THEN f
    ELSE LET tree == {q \in DOMAIN f : q = a \/ Below(a, q)}
             rest == Drop(f, tree \cup {b})
         IN [q \in DOMAIN rest \cup {Moved(a, b, t) : t \in tree} |->
               IF q \in DOMAIN rest THEN rest[q]
               ELSE f[CHOOSE t \in tree : Moved(a, b, t) = q]]

\* ------------------------------------------------------------ configuration

\* ScopeConfiguration.WriteToPath, as NewDefaultConfiguration cleans it.
WriteToPath == <<"/", "r">>
\* Handler.Scope: the URL prefix that is replaced by WriteToPath.
Scope == <<"/", "s">>
\* A directory beside WriteToPath whose name starts with WriteToPath's name.
Sibling == <<"/", "r", "2">>

\* RestrictFilenamesTo = nil: no alphabet is configured.
NoAlphabet == {}
\* An alphabet as in the test: the slash and a few letters.
SomeLetters == {"/", "a", "b", "x"}

\* filename.go: AlwaysRejectedRunes (the model's strings use "*" and ":").
AlwaysRejectedRunes == {"\"", "*", ":", "<", ">", "?", "|", "\\"}

\* An InAlphabet that looks for the always rejected runes only.
InAlphabetUnrestricted(s, alphabet) ==
    \A i \in 1..Len(s) : s[i] \notin AlwaysRejectedRunes

\* InAlphabet(s, alphabet, nil): every rune in the alphabet, when one is
\* configured, and none of the runes that are always rejected.
InAlphabet(s, alphabet) ==
    /\ alphabet = NoAlphabet \/ \A i \in 1..Len(s) : s[i] \in alphabet
    /\ \A i \in 1..Len(s) : s[i] \notin AlwaysRejectedRunes

\* HmacSecrets: key ids mapped to shared secrets; the empty function when
\* authentication is off.
NoSecrets == [k \in {} |-> <<>>]

\* ----------------------------------------------------------- authentication
\* Header values are strings (sequences of characters).  A Timestamp header
\* holds decimal digits; a Date header is modelled as "D" followed by the
\* decimal Unix time of the date it denotes (standing for an RFC 1123 date).

\* Width of the unsigned integers of the clock (uint64 in the program).
TimeBits == 5
TimeMod == 2 ^ TimeBits

Digits == <<"0", "1", "2", "3", "4", "5", "6", "7", "8", "9">>
IsDigit(c) == \E d \in 1..10 : Digits[d] = c
DigitValue(c) == (CHOOSE d \in 1..10 : Digits[d] = c) - 1

RECURSIVE DecimalValue(_, _, _)
DecimalValue(s, i, acc) ==
    IF i > Len(s) THEN acc ELSE DecimalValue(s, i + 1, acc * 10 + DigitValue(s[i]))

\* strconv.ParseUint(v, 10, 64) with its error dropped: 0 on a syntax
\* error, the largest value on a range error.
ParseUintOrZero(v) ==
    IF v = <<>> \/ \E i \in 1..Len(v) : ~IsDigit(v[i]) THEN 0
    ELSE LET n == DecimalValue(v, 1, 0)
         IN IF n >= TimeMod THEN TimeMod - 1 ELSE n

\* time.Parse(http.TimeFormat, v): whether v is a date.
IsHTTPDate(v) ==
    /\ Len(v) >= 2
    /\ v[1] = "D"
    /\ \A i \in 2..Len(v) : IsDigit(v[i])
    /\ DecimalValue(SubSeq(v, 2, Len(v)), 1, 0) < TimeMod

\* uint64(t.Unix()) of the date v.
HTTPDateUnix(v) == DecimalValue(SubSeq(v, 2, Len(v)), 1, 0)

\* abs64(int64(a - b)) for unsigned a, b: the difference wraps, is read as a
\* signed integer, and its absolute value is taken.
abs64diff(a, b) ==
    LET d == (a - b) % TimeMod
        signed == IF d >= TimeMod \div 2 THEN d - TimeMod ELSE d
    IN IF signed < 0 THEN 0 - signed ELSE signed

\* The mathematical distance between two instants.
Distance(a, b) == IF a >= b THEN a - b ELSE b - a

\* HMAC-SHA256(secret, message): an abstract injective function of both.
Hmac(secret, message) == <<"hmac", secret, message>>

\* http.Header.Get(name): the value, "" when the header is not set.
HeaderGet(headers, name) ==
    IF name \in DOMAIN headers THEN headers[name] ELSE <<>>

\* The Authorization header of a request is
\*   [kind |-> "none"]       not set, or another scheme than Signature
\*   [kind |-> "malformed"]  "Signature" followed by what Parse cannot read
\*   [kind |-> "sig", keyId, algorithm, headers, signature] otherwise, where
\*   algorithm = "" and headers = <<>> stand for fields the client left out.
DefaultAlgorithm == "hmac-sha256"
DefaultHeadersToSign == <<"timestamp", "token">>

\* AuthorizationHeader.Parse on top of Authenticate's defaults.
ParsedAlgorithm(a) == IF a.algorithm = "" THEN DefaultAlgorithm ELSE a.algorithm
ParsedHeadersToSign(a) == IF a.headers = <<>> THEN DefaultHeadersToSign ELSE a.headers

\* AuthorizationHeader.CheckFormal: "ok", "missing" (a listed header is not
\* set), "baddate" (Date does not parse) or "old" (outside the tolerance);
\* the headers are examined in the order listed.
RECURSIVE CheckFormalFrom(_, _, _, _, _)
CheckFormalFrom(hs, i, headers, timestampRecv, timeTolerance) ==
    IF i > Len(hs) THEN "ok"
    ELSE LET k == hs[i]
             v == HeaderGet(headers, k)
         IN IF v = <<>> THEN "missing"
            ELSE IF k = "timestamp" \/ k = "date" THEN
                 IF k = "date" /\ ~IsHTTPDate(v) THEN "baddate"
                 ELSE LET timestampThen ==
                              IF k = "timestamp" THEN ParseUintOrZero(v)
                              ELSE HTTPDateUnix(v)
                      IN IF abs64diff(timestampRecv, timestampThen) > timeTolerance
                         THEN "old"
                         ELSE CheckFormalFrom(hs, i + 1, headers, timestampRecv, timeTolerance)
            ELSE CheckFormalFrom(hs, i + 1, headers, timestampRecv, timeTolerance)

CheckFormal(a, headers, timestampRecv, timeTolerance) ==
    CheckFormalFrom(ParsedHeadersToSign(a), 1, headers, timestampRecv, timeTolerance)

\* The message SatisfiedBy feeds to the MAC: the values of the listed
\* headers, concatenated without a separator.
RECURSIVE SignedMessage(_, _, _)
SignedMessage(hs, i, headers) ==
    IF i > Len(hs) THEN <<>>
    ELSE HeaderGet(headers, hs[i]) \o SignedMessage(hs, i + 1, headers)

\* A comparison that accepts every signature.
SatisfiedByAnything(a, headers, secret) == a.signature # <<>>

\* AuthorizationHeader.SatisfiedBy
SatisfiedBy(a, headers, secret) ==
    a.signature = Hmac(secret, SignedMessage(ParsedHeadersToSign(a), 1, headers))

\* An Authenticate that looks up the key and compares the MAC before it
\* looks at the algorithm and the listed headers.
AuthenticateMacFirst(authz, headers, secrets, timestampRecv, timeTolerance) ==
    IF DOMAIN secrets = {} THEN 403
    ELSE IF authz.kind = "none" THEN 401
    ELSE IF authz.kind = "malformed" THEN 400
    ELSE IF authz.keyId \notin DOMAIN secrets THEN 403
    ELSE IF ~SatisfiedBy(authz, headers, secrets[authz.keyId]) THEN 403
    ELSE IF ParsedAlgorithm(authz) # "hmac-sha256" THEN 400
    ELSE IF CheckFormal(authz, headers, timestampRecv, timeTolerance) # "ok" THEN 400
    ELSE 200

\* An Authenticate that answers every request with 403.
AuthenticateForbidding(authz, headers, secrets, timestampRecv, timeTolerance) == 403

\* Authenticate: the HTTP status it returns, 200 when the request passes.
Authenticate(authz, headers, secrets, timestampRecv, timeTolerance) ==
    IF DOMAIN secrets = {} THEN 403
    ELSE IF authz.kind = "none" THEN 401
    ELSE IF authz.kind = "malformed" THEN 400
    ELSE IF authz.signature = <<>> \/ Len(ParsedHeadersToSign(authz)) < 2
            \/ ParsedAlgorithm(authz) # "hmac-sha256" THEN 400
    ELSE IF ~(ParsedHeadersToSign(authz)[1] \in {"date", "timestamp"})
            \/ ParsedHeadersToSign(authz)[2] # "token" THEN 400
    ELSE IF CheckFormal(authz, headers, timestampRecv, timeTolerance) # "ok" THEN 400
    ELSE LET secretFound == authz.keyId \in DOMAIN secrets
             hmacSharedSecret == IF secretFound THEN secrets[authz.keyId] ELSE <<>>
             isSatisfied == SatisfiedBy(authz, headers, hmacSharedSecret)
         IN IF ~secretFound \/ ~isSatisfied THEN 403 ELSE 200

\* An Authenticate that spares itself the MAC when the key is unknown.
AuthenticateStepsShortCut(authz, headers, secrets, timestampRecv, timeTolerance) ==
    IF DOMAIN secrets = {} THEN <<>>
    ELSE IF authz.kind # "sig" THEN <<"Parse">>
    ELSE IF CheckFormal(authz, headers, timestampRecv, timeTolerance) # "ok"
    THEN <<"Parse", "CheckFormal">>
    ELSE IF authz.keyId \notin DOMAIN secrets
    THEN <<"Parse", "CheckFormal", "secrets[a.KeyID]">>
    ELSE <<"Parse", "CheckFormal", "secrets[a.KeyID]", "SatisfiedBy">>

\* Authenticate: the calls it makes before it returns, in order.
AuthenticateSteps(authz, headers, secrets, timestampRecv, timeTolerance) ==
    IF DOMAIN secrets = {} THEN <<>>
    ELSE IF authz.kind # "sig" THEN <<"Parse">>
    ELSE IF authz.signature = <<>> \/ Len(ParsedHeadersToSign(authz)) < 2
            \/ ParsedAlgorithm(authz) # "hmac-sha256" THEN <<"Parse">>
    ELSE IF ~(ParsedHeadersToSign(authz)[1] \in {"date", "timestamp"})
            \/ ParsedHeadersToSign(authz)[2] # "token" THEN <<"Parse">>
    ELSE IF CheckFormal(authz, headers, timestampRecv, timeTolerance) # "ok"
    THEN <<"Parse", "CheckFormal">>
    ELSE <<"Parse", "CheckFormal", "secrets[a.KeyID]", "SatisfiedBy">>

\* ------------------------------------------------------------------ quotas

\* Content-Length as the client sent it: a number, or one of
NoLength == -1         \* the header is not set
BadLength == -2        \* the header is set but is no unsigned number

\* serveHTTP, PUT and POST without envelope: the write quota of the file
\* and whether max_filesize is the limit that binds.
singleQuota(cfg) ==
    IF cfg.MaxTransactionSize = 0
       \/ (cfg.MaxFilesize > 0 /\ cfg.MaxFilesize < cfg.MaxTransactionSize)
    THEN [quota |-> cfg.MaxFilesize, err |-> "errFileTooLarge"]
    ELSE [quota |-> cfg.MaxTransactionSize, err |-> "errTransactionTooLarge"]

\* A quota selection without the test for a transaction that is used up.
partQuotaUnchecked(cfg, bytesWrittenInTransaction) ==
    IF cfg.MaxTransactionSize > 0
       /\ (cfg.MaxFilesize = 0
           \/ cfg.MaxTransactionSize - bytesWrittenInTransaction < cfg.MaxFilesize)
    THEN [exhausted |-> FALSE,
          quota |-> cfg.MaxTransactionSize - bytesWrittenInTransaction,
          err |-> "errTransactionTooLarge"]
    ELSE [exhausted |-> FALSE, quota |-> cfg.MaxFilesize, err |-> "errFileTooLarge"]

\* serveMultipartUpload: the write quota of the next part after
\* bytesWrittenInTransaction bytes; exhausted when nothing is left.
partQuota(cfg, bytesWrittenInTransaction) ==
    IF cfg.MaxTransactionSize > 0 /\ bytesWrittenInTransaction >= cfg.MaxTransactionSize
    THEN [exhausted |-> TRUE, quota |-> 0, err |-> "errTransactionTooLarge"]
    ELSE IF cfg.MaxTransactionSize > 0
            /\ (cfg.MaxFilesize = 0
                \/ cfg.MaxTransactionSize - bytesWrittenInTransaction < cfg.MaxFilesize)
    THEN [exhausted |-> FALSE,
          quota |-> cfg.MaxTransactionSize - bytesWrittenInTransaction,
          err |-> "errTransactionTooLarge"]
    ELSE [exhausted |-> FALSE, quota |-> cfg.MaxFilesize, err |-> "errFileTooLarge"]

\* A pre-flight that rejects what is announced below the quota.
preflightInverted(length, writeQuota) ==
    IF length = NoLength THEN 0
    ELSE IF length = BadLength THEN 400
    ELSE IF writeQuota > 0 /\ length < writeQuota THEN 413
    ELSE 0

\* The Content-Length pre-flight left out.
preflightSkipped(length, writeQuota) == 0

\* The Content-Length pre-flight: 400 for a malformed length, 413 for one
\* over the quota, 0 to go on.
preflight(length, writeQuota) ==
    IF length = NoLength THEN 0
    ELSE IF length = BadLength THEN 400
    ELSE IF writeQuota > 0 /\ length > writeQuota THEN 413
    ELSE 0

\* expectBytes: the announced length, 0 when none was announced.
expectBytesOf(length) == IF length >= 0 THEN length ELSE 0

\* -------------------------------------------------------- path translation

\* translateForFilesystem: [err, path, name].
translateForFilesystem(cfg, providedName) ==
    LET uc == TrimPrefix(providedName, Scope)
        s == Join(WriteToPath, uc)
        translated == Clean(s)
    IN IF ~HasPrefix(translated, WriteToPath)
       THEN [err |-> "ErrPermission", path |-> <<>>, name |-> <<>>]
       ELSE IF ~InAlphabet(uc, cfg.RestrictFilenamesTo)
       THEN [err |-> "errInvalidFileName", path |-> <<>>, name |-> <<>>]
       ELSE [err |-> ErrNone, path |-> Dir(translated), name |-> Base(translated)]

\* R is a path-component prefix of p: p is R or lies below it.
Under(R, p) == p = R \/ Below(R, p)

\* ------------------------------------------------------------------- state

VARIABLES
    fs,       \* the filesystem
    cfg,      \* the ScopeConfiguration, the revision of upload.go that is
              \* built, and protofile's package variable IntentNew
    h,        \* per request handler (goroutine): its position and locals
    nreq,     \* number of requests received so far
    now,      \* getTimestamp(r): the server's clock, in seconds
    clients,  \* the requests the clients of this deployment send
    auth      \* SpecAuth: one call of Authenticate, its inputs and result

vars == <<fs, cfg, h, nreq, now, clients, auth>>

Procs == 1..MaxProcs

\* The two revisions of upload.go in the tree.
RevHardlink == "CreateTemp"    \* src/upload.go: protofile.CreateTemp and Hardlink
RevProtofile == "IntentNew"    \* src/unnamed/part_012: protofile.IntentNew

\* What a handler answered that is no HTTP status of its own.
Delegated == 1     \* nextFn(w, r): the request went to the next handler
Panicked == 2      \* the goroutine panicked; net/http closes the connection

\* io.CopyN's chunk in part_012.
reportProgressEveryBytes == 32768

NoAuthz == [kind |-> "none"]
NoHeaders == [k \in {} |-> <<>>]

\* A request: method, URL path, Destination header, Content-Type ("" when
\* not set, "multipart" for multipart/form-data, "other"), Content-Length,
\* number of body bytes the reader delivers before EOF, the parts of a
\* multipart body, the Authorization header and the headers it may sign.
Request(method, path, dest, ctype, length, body, parts, authz, headers) ==
    [method |-> method, path |-> path, dest |-> dest, ctype |-> ctype,
     length |-> length, body |-> body, parts |-> parts,
     authz |-> authz, headers |-> headers]

\* One part of a multipart body: its filename, Content-Length and bytes.
Part(name, length, body) == [name |-> name, length |-> length, body |-> body]

Put_(path, length, body) ==
    Request("PUT", path, <<>>, "", length, body, <<>>, NoAuthz, NoHeaders)
Delete_(path) ==
    Request("DELETE", path, <<>>, "", NoLength, 0, <<>>, NoAuthz, NoHeaders)
Move_(path, dest) ==
    Request("MOVE", path, dest, "", NoLength, 0, <<>>, NoAuthz, NoHeaders)
Copy_(path, dest) ==
    Request("COPY", path, dest, "", NoLength, 0, <<>>, NoAuthz, NoHeaders)
Get_(path) == Request("GET", path, <<>>, "", NoLength, 0, <<>>, NoAuthz, NoHeaders)
Multipart_(parts) ==
    Request("POST", Scope, <<>>, "multipart", NoLength, 0, parts, NoAuthz, NoHeaders)
Signed(req, authz, headers) == [req EXCEPT !.authz = authz, !.headers = headers]

\* A handler that serves no request.
Idle ==
    [pc |-> "idle", req |-> Put_(<<>>, NoLength, 0), id |-> 0, status |-> 0,
     multi |-> FALSE, parts |-> <<>>, idx |-> 0, tx |-> 0,
     quota |-> 0, qerr |-> "", expect |-> 0,
     dirp |-> <<>>, fname |-> <<>>, final |-> <<>>,
     backend |-> "none", tmp |-> <<>>, size |-> 0,
     written |-> 0, nread |-> 0, err |-> ErrNone,
     persists |-> 0, zaps |-> 0,
     challenge |-> FALSE,    \* the response header WWW-Authenticate: Signature
     locations |-> <<>>,     \* the response headers Location, in order
     removed |-> <<>>]       \* what os.Remove(finalName) took away, if called

\* The body of the part a handler is at, and the tag of this upload in the
\* filesystem: who wrote it and how long the body it was sent is.
CurPart(r) == r.parts[r.idx]
UploadId(p, r) == <<p, r.id, r.idx>>
Src(p, r) == [up |-> UploadId(p, r), len |-> CurPart(r).body]

\* The files as they are before the first request: a file in WriteToPath
\* and a file in the directory beside it.
InitialSrc == [up |-> <<0, 0, 0>>, len |-> 1]
InitialFile == FileEntry(1, 1, InitialSrc)
FileA == WriteToPath \o <<"/", "a">>
FileK == Sibling \o <<"/", "k">>
InitialFs ==
    (Root :> DirEntry) @@ (WriteToPath :> DirEntry) @@ (Sibling :> DirEntry)
    @@ (FileA :> InitialFile) @@ (FileK :> InitialFile)

\* NewDefaultConfiguration plus what the directives set, with the fields of
\* the Handler that go with it: Next says whether a next handler is set.
Configuration(rev, workers, tmpfile, maxFile, maxTx, webdav, secrets, silence, tol) ==
    [Revision |-> rev, Workers |-> workers,
     TmpfileSupported |-> tmpfile,
     IntentNew |-> "intentNewUnix",
     MaxFilesize |-> maxFile, MaxTransactionSize |-> maxTx,
     EnableWebdav |-> webdav,
     IncomingHmacSecrets |-> secrets, SilenceAuthErrors |-> silence,
     TimestampTolerance |-> tol,
     RestrictFilenamesTo |-> NoAlphabet,
     ApparentLocation |-> <<>>,
     Next |-> TRUE]

NoAuthRun == [result |-> 0]

\* ---------------------------------------------------------------- serveHTTP

Min(a, b) == IF a <= b THEN a ELSE b
Max(a, b) == IF a >= b THEN a ELSE b

\* The answer of upload.go to a method it does not take: serveHTTP
\* returns 405 without an error, and ServeHTTP hands such a request to the
\* next handler when there is one.
NotAllowed(c) == IF c.Next THEN Delegated ELSE 405

\* A first switch that lets every method pass.
ClassifyOpen(c, req) == 0

\* The first switch of serveHTTP: 0 to go on, else the answer.
Classify(c, req) ==
    IF req.method \in {"POST", "PUT"} THEN 0
    ELSE IF c.Revision = RevProtofile THEN
         IF c.EnableWebdav THEN 0
         ELSE IF c.SilenceAuthErrors THEN Delegated
         ELSE 405
    ELSE IF req.method \in {"COPY", "MOVE", "DELETE"} /\ c.EnableWebdav THEN 0
    ELSE NotAllowed(c)

\* The handler without its authentication.
AuthGateOpen(c, req, t) == 0

\* The authentication without regard to silent_auth_errors.
AuthGateLoud(c, req, t) ==
    IF c.Revision = RevProtofile /\ DOMAIN c.IncomingHmacSecrets # {}
    THEN LET code == Authenticate(req.authz, req.headers, c.IncomingHmacSecrets,
                                  t, c.TimestampTolerance)
         IN IF code = 200 THEN 0 ELSE code
    ELSE 0

\* Authenticate called whether or not secrets are configured.
AuthGateAlways(c, req, t) ==
    LET code == Authenticate(req.authz, req.headers, c.IncomingHmacSecrets,
                             t, c.TimestampTolerance)
    IN IF c.Revision # RevProtofile \/ code = 200 THEN 0
       ELSE IF c.SilenceAuthErrors THEN Delegated
       ELSE code

\* part_012, under the read lock: Authenticate when secrets are configured;
\* 0 to go on, else the answer.
AuthGate(c, req, t) ==
    IF c.Revision = RevProtofile /\ DOMAIN c.IncomingHmacSecrets # {}
    THEN LET code == Authenticate(req.authz, req.headers, c.IncomingHmacSecrets,
                                  t, c.TimestampTolerance)
         IN IF code = 200 THEN 0
            ELSE IF c.SilenceAuthErrors THEN Delegated
            ELSE code
    ELSE 0

\* The second switch of serveHTTP, as far as it answers without calling a
\* routine that touches the filesystem: 0 to go on, else the answer.
Refusal(c, req) ==
    CASE req.method = "COPY" -> 501
      [] req.method = "MOVE" ->
            IF Len(req.path) < 2 \/ req.dest = <<>> THEN 400 ELSE 0
      [] req.method = "DELETE" -> IF Len(req.path) < 2 THEN 400 ELSE 0
      [] req.method = "POST" /\ req.ctype = "multipart" -> 0
      [] req.method = "POST" /\ req.ctype # "" -> 415
      [] req.method \in {"POST", "PUT"} -> IF Len(req.path) < 2 THEN 400 ELSE 0
      [] OTHER -> IF c.Revision = RevProtofile THEN Delegated ELSE NotAllowed(c)

\* serveHTTP up to the call of moveOneFile, deleteOneFile,
\* serveMultipartUpload or the quota selection of PUT.
Gate(c, req, t) ==
    IF Classify(c, req) # 0 THEN Classify(c, req)
    ELSE IF AuthGate(c, req, t) # 0 THEN AuthGate(c, req, t)
    ELSE Refusal(c, req)

\* A MOVE that leaves the source where it is.
moveOneFileKeepingSource(c, f, fromFilename, toFilename) ==
    LET from == translateForFilesystem(c, fromFilename)
        to == translateForFilesystem(c, toFilename)
        moveFrom == Join(from.path, from.name)
        moveTo == Join(to.path, to.name)
    IN IF from.err # ErrNone \/ to.err # ErrNone THEN [status |-> 422, fs |-> f]
       ELSE IF RenameErr(f, moveFrom, moveTo) = ErrNone
            THEN [status |-> 201, fs |-> Put(f, moveTo, f[moveFrom])]
       ELSE [status |-> 500, fs |-> f]

\* moveOneFile: the status and the filesystem it leaves.
moveOneFile(c, f, fromFilename, toFilename) ==
    LET from == translateForFilesystem(c, fromFilename)
        to == translateForFilesystem(c, toFilename)
        moveFrom == Join(from.path, from.name)
        moveTo == Join(to.path, to.name)
    IN IF from.err # ErrNone \/ to.err # ErrNone THEN [status |-> 422, fs |-> f]
       ELSE IF moveFrom = moveTo THEN [status |-> 409, fs |-> f]
       ELSE IF moveFrom = WriteToPath \/ moveTo = WriteToPath THEN [status |-> 403, fs |-> f]
       ELSE IF RenameErr(f, moveFrom, moveTo) = ErrNone
            THEN [status |-> 201, fs |-> Rename(f, moveFrom, moveTo)]
       ELSE IF RenameErr(f, moveFrom, moveTo) = ErrNotEmpty THEN [status |-> 409, fs |-> f]
       ELSE [status |-> 500, fs |-> f]

\* deleteOneFile without its test for the target directory.
deleteOneFileUnguarded(c, f, fileName) ==
    LET t == translateForFilesystem(c, fileName)
    IN IF t.err # ErrNone THEN [status |-> 422, fs |-> f]
       ELSE [status |-> 204, fs |-> RemoveAll(f, Join(t.path, t.name))]

\* deleteOneFile: the status and the filesystem it leaves.
deleteOneFile(c, f, fileName) ==
    LET t == translateForFilesystem(c, fileName)
        deleteThis == Join(t.path, t.name)
    IN IF t.err # ErrNone THEN [status |-> 422, fs |-> f]
       ELSE IF deleteThis = WriteToPath THEN [status |-> 403, fs |-> f]
       ELSE [status |-> 204, fs |-> RemoveAll(f, deleteThis)]

\* A handler takes the next request.
Accepts(p, req) ==
    /\ h[p].pc \in {"idle", "done"}
    /\ p <= cfg.Workers
    /\ nreq < MaxRequests
    /\ req \in clients

Taken(p, req) == [Idle EXCEPT !.req = req, !.id = nreq + 1]

\* serveHTTP answers without calling a routine that touches the filesystem.
ServeRefuse(p) ==
    \E req \in clients :
        /\ Accepts(p, req)
        /\ Gate(cfg, req, now) # 0
        /\ h' = [h EXCEPT ![p] = [Taken(p, req) EXCEPT
                    !.pc = "done", !.status = Gate(cfg, req, now),
                    !.challenge = /\ Classify(cfg, req) = 0
                                  /\ AuthGate(cfg, req, now) = 401]]
        /\ nreq' = nreq + 1
        /\ UNCHANGED <<fs, cfg, now, clients, auth>>

\* serveHTTP, MOVE.
ServeMove(p) ==
    \E req \in clients :
        /\ Accepts(p, req)
        /\ Gate(cfg, req, now) = 0
        /\ req.method = "MOVE"
        /\ LET m == moveOneFile(cfg, fs, req.path, req.dest)
           IN /\ fs' = m.fs
              /\ h' = [h EXCEPT ![p] = [Taken(p, req) EXCEPT
                          !.pc = "done", !.status = m.status]]
        /\ nreq' = nreq + 1
        /\ UNCHANGED <<cfg, now, clients, auth>>

\* serveHTTP, DELETE.
ServeDelete(p) ==
    \E req \in clients :
        /\ Accepts(p, req)
        /\ Gate(cfg, req, now) = 0
        /\ req.method = "DELETE"
        /\ LET d == deleteOneFile(cfg, fs, req.path)
           IN /\ fs' = d.fs
              /\ h' = [h EXCEPT ![p] = [Taken(p, req) EXCEPT
                          !.pc = "done", !.status = d.status]]
        /\ nreq' = nreq + 1
        /\ UNCHANGED <<cfg, now, clients, auth>>

\* serveHTTP, PUT and POST without envelope: the body is the one file.
ServeUpload(p) ==
    \E req \in clients :
        /\ Accepts(p, req)
        /\ Gate(cfg, req, now) = 0
        /\ req.method \in {"PUT", "POST"} /\ req.ctype = ""
        /\ h' = [h EXCEPT ![p] = [Taken(p, req) EXCEPT
                    !.pc = "part", !.multi = FALSE, !.idx = 1,
                    !.parts = <<Part(req.path, req.length, req.body)>>]]
        /\ nreq' = nreq + 1
        /\ UNCHANGED <<fs, cfg, now, clients, auth>>

\* serveHTTP, POST of multipart/form-data: serveMultipartUpload begins.
ServeMultipart(p) ==
    \E req \in clients :
        /\ Accepts(p, req)
        /\ Gate(cfg, req, now) = 0
        /\ req.method = "POST" /\ req.ctype = "multipart"
        /\ h' = [h EXCEPT ![p] = [Taken(p, req) EXCEPT
                    !.pc = "part", !.multi = TRUE, !.idx = 1,
                    !.parts = req.parts]]
        /\ nreq' = nreq + 1
        /\ UNCHANGED <<fs, cfg, now, clients, auth>>

\* ------------------------------------------------- one file of an upload

\* The locals of writeOneHTTPBlob and writeFileFromReader before a part.
Fresh(r) ==
    [r EXCEPT !.quota = 0, !.qerr = "", !.expect = 0,
              !.dirp = <<>>, !.fname = <<>>, !.final = <<>>,
              !.backend = "none", !.tmp = <<>>, !.size = 0,
              !.written = 0, !.nread = 0, !.err = ErrNone,
              !.persists = 0, !.zaps = 0, !.removed = <<>>]

Answer(r, status) == [r EXCEPT !.pc = "done", !.status = status]

\* The quota of the part a handler is at.
QuotaOf(c, r) ==
    IF r.multi
    THEN partQuota(c, r.tx)
    ELSE [exhausted |-> FALSE, quota |-> singleQuota(c).quota, err |-> singleQuota(c).err]

\* The over-quota check left out.
overQuotaIgnored(writeQuota, bytesWritten) == FALSE

\* Whether bytesWritten is over a quota that is set.
overQuota(writeQuota, bytesWritten) == writeQuota > 0 /\ bytesWritten > writeQuota

\* The loop head of serveMultipartUpload and everything up to the call of
\* writeFileFromReader: end of the parts, a part without filename, the
\* quota, the Content-Length pre-flight, the path translation.
PartBegin(p) ==
    /\ h[p].pc = "part"
    /\ LET r == h[p]
           part == CurPart(r)
           q == QuotaOf(cfg, r)
           t == translateForFilesystem(cfg, part.name)
       IN h' = [h EXCEPT ![p] =
            IF r.idx > Len(r.parts) THEN Answer(r, 201)
            ELSE IF r.multi /\ part.name = <<>> THEN [r EXCEPT !.idx = r.idx + 1]
            ELSE IF q.exhausted THEN Answer([r EXCEPT !.qerr = q.err], 413)
            ELSE IF preflight(part.length, q.quota) # 0
                 THEN Answer([r EXCEPT !.quota = q.quota, !.qerr = q.err],
                             preflight(part.length, q.quota))
            ELSE IF t.err # ErrNone
                 THEN Answer([r EXCEPT !.quota = q.quota, !.qerr = q.err,
                                       !.err = t.err], 422)
            ELSE [r EXCEPT !.pc = "mkdir",
                           !.quota = q.quota, !.qerr = q.err,
                           !.expect = expectBytesOf(part.length),
                           !.dirp = t.path, !.fname = t.name,
                           !.final = Join(t.path, t.name)]]
    /\ UNCHANGED <<fs, cfg, nreq, now, clients, auth>>

\* os.MkdirAll(path): the first statement of writeFileFromReader
\* (upload.go) and of intentNewUnix (protofile).
Mkdir(p) ==
    /\ h[p].pc = "mkdir"
    /\ LET r == h[p]
           e == MkdirAllErr(fs, r.dirp)
       IN /\ fs' = MkdirAll(fs, r.dirp)
          /\ h' = [h EXCEPT ![p] =
                IF e # ErrNone THEN [r EXCEPT !.pc = "exit", !.err = e]
                ELSE [r EXCEPT !.pc = "create"]]
    /\ UNCHANGED <<cfg, nreq, now, clients, auth>>

\* The name ioutil.TempFile picks in dir with the given prefix: one that
\* no other handler picks.
TempName(dir, prefix, p) == Join(dir, prefix \o <<Digits[p + 1]>>)

\* upload.go: protofile.CreateTemp, its fallback ioutil.TempFile, and
\* Truncate.  When the directory is gone again the open fails; whether the
\* fallback is taken then, and w.Name() is called on a nil file, is open.
CreateTemp(p) ==
    /\ h[p].pc = "create"
    /\ cfg.Revision = RevHardlink
    /\ LET r == h[p]
           reserved == IF r.expect > truncateThreshold THEN r.expect ELSE 0
       IN IF ~IsDir(fs, r.dirp)
          THEN /\ \E e \in {IF Exists(fs, r.dirp) THEN ErrNotDir ELSE ErrNotExist, "panic"} :
                     h' = [h EXCEPT ![p] = [r EXCEPT !.pc = "exit", !.err = e]]
               /\ fs' = fs
          ELSE IF cfg.TmpfileSupported
          THEN /\ h' = [h EXCEPT ![p] = [r EXCEPT !.pc = "copy",
                            !.backend = "otmpfile", !.size = reserved]]
               /\ fs' = fs
          ELSE LET name == TempName(r.dirp, <<".">>, p)
               IN /\ h' = [h EXCEPT ![p] = [r EXCEPT !.pc = "copy",
                               !.backend = "tempfile", !.tmp = name,
                               !.size = reserved]]
                  /\ fs' = Put(fs, name, TempEntry(UploadId(p, r)))
    /\ UNCHANGED <<cfg, nreq, now, clients, auth>>

\* part_012: the rest of protofile.IntentNew (the open with O_TMPFILE, or
\* intentNewUnixDotted with its own MkdirAll and TempFile), then SizeWillBe,
\* which may fail for want of space when it reserves.
IntentNew(p) ==
    /\ h[p].pc = "create"
    /\ cfg.Revision = RevProtofile
    /\ LET r == h[p]
           unix == cfg.IntentNew = "intentNewUnix"
           enoent == unix /\ ~Exists(fs, r.dirp)
           enotdir == unix /\ Exists(fs, r.dirp) /\ ~IsDir(fs, r.dirp)
           dotted == ~unix \/ enoent \/ ~cfg.TmpfileSupported
           name == TempName(r.dirp, <<".">> \o r.fname, p)
           reserves == r.expect > reserveFileSizeThreshold
       IN /\ cfg' = IF enoent THEN [cfg EXCEPT !.IntentNew = "intentNewUnixDotted"]
                    ELSE cfg
          /\ IF enotdir \/ (dotted /\ MkdirAllErr(fs, r.dirp) # ErrNone)
             THEN /\ h' = [h EXCEPT ![p] = [r EXCEPT !.pc = "exit", !.err = ErrNotDir]]
                  /\ fs' = fs
             ELSE /\ fs' = IF dotted
                           THEN Put(MkdirAll(fs, r.dirp), name, TempEntry(UploadId(p, r)))
                           ELSE fs
                  /\ \E ok \in (IF reserves THEN BOOLEAN ELSE {TRUE}) :
                        h' = [h EXCEPT ![p] = [r EXCEPT
                                !.pc = IF ok THEN "copy" ELSE "exit",
                                !.backend = IF dotted THEN "dotted" ELSE "otmpfile",
                                !.tmp = IF dotted THEN name ELSE <<>>,
                                !.size = IF ok /\ reserves THEN r.expect ELSE 0,
                                !.err = IF ok THEN ErrNone ELSE ErrIO]]
    /\ UNCHANGED <<nreq, now, clients, auth>>

\* How many bytes a failing read or write lets through before it fails.
FailAfter(n) == {k \in {0, 1} : k <= n}

\* One byte more than io.CopyN is told to read.
copyLimitWide(writeQuota) == 2 + writeQuota

\* upload.go: the most that io.CopyN(w, r, 1+writeQuota) reads.
copyLimit(writeQuota) == 1 + writeQuota

\* upload.go: io.CopyN(w, r, 1+writeQuota), or io.Copy without a quota,
\* and the checks that follow it.
CopyAll(p) ==
    /\ h[p].pc = "copy"
    /\ cfg.Revision = RevHardlink
    /\ LET r == h[p]
           body == CurPart(r).body
           n == IF r.quota > 0 THEN Min(body, copyLimit(r.quota)) ELSE body
       IN \/ h' = [h EXCEPT ![p] = [r EXCEPT
                    !.written = n, !.nread = n,
                    !.pc = IF overQuota(r.quota, n) THEN "exit" ELSE "link",
                    !.err = IF overQuota(r.quota, n) THEN "errFileTooLarge" ELSE ErrNone]]
          \/ \E k \in FailAfter(n) :
                h' = [h EXCEPT ![p] = [r EXCEPT
                    !.written = k, !.nread = k, !.pc = "exit", !.err = ErrIO]]
    /\ UNCHANGED <<fs, cfg, nreq, now, clients, auth>>

\* part_012: one turn of the loop around io.CopyN(w, r,
\* reportProgressEveryBytes), and the checks after the loop when it ends.
CopyChunk(p) ==
    /\ h[p].pc = "copy"
    /\ cfg.Revision = RevProtofile
    /\ LET r == h[p]
           n == Min(CurPart(r).body - r.nread, reportProgressEveryBytes)
           eof == n < reportProgressEveryBytes
           bytesWritten == r.written + n
       IN \/ h' = [h EXCEPT ![p] = [r EXCEPT
                    !.written = bytesWritten, !.nread = r.nread + n,
                    !.pc = IF overQuota(r.quota, bytesWritten) THEN "exit"
                           ELSE IF eof THEN "link" ELSE "copy",
                    !.err = IF overQuota(r.quota, bytesWritten)
                            THEN "errFileTooLarge" ELSE ErrNone]]
          \/ \E k \in FailAfter(n) :
                h' = [h EXCEPT ![p] = [r EXCEPT
                    !.nread = r.nread + k, !.pc = "exit", !.err = ErrIO]]
    /\ UNCHANGED <<fs, cfg, nreq, now, clients, auth>>

\* A file that loses its contents on the way to its final name.
WrittenEmpty(p, r) == FileEntry(0, 0, Src(p, r))

\* The file a handler links or renames into place.
Written(p, r) == FileEntry(r.written, Max(r.size, r.written), Src(p, r))

\* protofile.Hardlink (upload.go) and unixProtoFile.Persist up to its first
\* linkat: the file gets its final name unless the name is taken.
Link(p) ==
    /\ h[p].pc = "link"
    /\ h[p].backend \in {"otmpfile", "tempfile"}
    /\ LET r == h[p]
           e == IF r.backend = "tempfile" /\ ~Exists(fs, r.tmp) THEN ErrNotExist
                ELSE CreateErr(fs, r.final)
           persists == IF cfg.Revision = RevProtofile THEN 1 ELSE 0
       IN /\ fs' = IF e = ErrNone THEN Put(fs, r.final, Written(p, r)) ELSE fs
          /\ h' = [h EXCEPT ![p] = [r EXCEPT
                    !.pc = IF e = ErrExist THEN "stat" ELSE "exit",
                    !.err = e, !.persists = persists]]
    /\ UNCHANGED <<cfg, nreq, now, clients, auth>>

\* generalizedProtoFile.Persist and unixDottedProtoFile.Persist: the temp
\* file is renamed to the final name.
PersistRename(p) ==
    /\ h[p].pc = "link"
    /\ h[p].backend = "dotted"
    /\ LET r == h[p]
           e == RenameErr(fs, r.tmp, r.final)
       IN /\ fs' = IF e = ErrNone
                   THEN Put(Drop(fs, {r.tmp}), r.final, Written(p, r))
                   ELSE fs
          /\ h' = [h EXCEPT ![p] = [r EXCEPT
                    !.pc = "exit", !.err = e, !.persists = 1]]
    /\ UNCHANGED <<cfg, nreq, now, clients, auth>>

\* os.Stat(finalName) after EEXIST.  upload.go drops Stat's error and calls
\* IsDir on what may be nil; Persist keeps EEXIST when Stat fails.
Stat(p) ==
    /\ h[p].pc = "stat"
    /\ LET r == h[p]
       IN h' = [h EXCEPT ![p] =
            IF ~Exists(fs, r.final)
            THEN [r EXCEPT !.pc = "exit",
                           !.err = IF cfg.Revision = RevHardlink THEN "panic" ELSE ErrExist]
            ELSE IF IsDir(fs, r.final) THEN [r EXCEPT !.pc = "exit"]
            ELSE [r EXCEPT !.pc = "unlink"]]
    /\ UNCHANGED <<fs, cfg, nreq, now, clients, auth>>

\* os.Remove(finalName): the file that holds the name is removed.
Unlink(p) ==
    /\ h[p].pc = "unlink"
    /\ fs' = Remove(fs, h[p].final)
    /\ h' = [h EXCEPT ![p] = [h[p] EXCEPT
                !.pc = "relink",
                !.removed = IF Remove(fs, h[p].final) # fs
                            THEN <<fs[h[p].final]>> ELSE <<>>]]
    /\ UNCHANGED <<cfg, nreq, now, clients, auth>>

\* The second Hardlink or linkat.
Relink(p) ==
    /\ h[p].pc = "relink"
    /\ LET r == h[p]
           e == IF r.backend = "tempfile" /\ ~Exists(fs, r.tmp) THEN ErrNotExist
                ELSE CreateErr(fs, r.final)
       IN /\ fs' = IF e = ErrNone THEN Put(fs, r.final, Written(p, r)) ELSE fs
          /\ h' = [h EXCEPT ![p] = [r EXCEPT !.pc = "exit", !.err = e]]
    /\ UNCHANGED <<cfg, nreq, now, clients, auth>>

\* A writeOneHTTPBlob that answers a short body like a complete one.
blobResultShortIsCreated(err, bytesWritten, expectBytes) ==
    IF err # ErrNone THEN
        IF err = ErrExist \/ err = ErrNotDir
        THEN [bytes |-> 0, status |-> 409, failed |-> TRUE]
        ELSE [bytes |-> bytesWritten, status |-> 500, failed |-> TRUE]
    ELSE [bytes |-> bytesWritten, status |-> 201, failed |-> FALSE]

\* A writeOneHTTPBlob that reports no failure.
blobResultNeverFails(err, bytesWritten, expectBytes) ==
    [bytes |-> bytesWritten, status |-> 201, failed |-> FALSE]

\* A name conflict reported like any other failure.
blobResultNoConflict(err, bytesWritten, expectBytes) ==
    [bytes |-> bytesWritten,
     status |-> IF err = ErrNone THEN 201 ELSE 500,
     failed |-> err # ErrNone]

\* writeOneHTTPBlob after writeFileFromReader returned: the bytes it
\* reports, the status it suggests and whether it returns an error.
blobResult(err, bytesWritten, expectBytes) ==
    IF err # ErrNone THEN
        IF err = ErrExist \/ err = ErrNotDir
        THEN [bytes |-> 0, status |-> 409, failed |-> TRUE]
        ELSE IF bytesWritten > 0 /\ bytesWritten < expectBytes
        THEN [bytes |-> bytesWritten, status |-> 507, failed |-> TRUE]
        ELSE [bytes |-> bytesWritten, status |-> 500, failed |-> TRUE]
    ELSE IF bytesWritten < expectBytes
    THEN [bytes |-> bytesWritten, status |-> 202, failed |-> FALSE]
    ELSE [bytes |-> bytesWritten, status |-> 201, failed |-> FALSE]

\* A Zap that removes the file by its final name as well.
DeferredByFinalName(c, f, r) ==
    IF r.backend = "none" THEN f ELSE RemoveAll(RemoveAll(f, r.tmp), r.final)

\* Deferred calls that clean up after a success only.
DeferredAfterSuccess(c, f, r) ==
    IF r.err # ErrNone THEN f
    ELSE IF r.backend \in {"tempfile", "dotted"} THEN RemoveAll(f, r.tmp)
    ELSE f

\* Deferred calls that clean nothing up.
DeferredNothing(c, f, r) == f

\* What the deferred calls of writeFileFromReader leave: upload.go removes
\* the temp name it got from ioutil.TempFile; part_012 calls Zap, which
\* closes a nameless file and removes a named one unless p.persisted is
\* set, and Persist, having a value receiver, sets it on a copy only.
Deferred(c, f, r) ==
    IF c.Revision = RevHardlink
    THEN IF r.backend = "tempfile" THEN Remove(f, r.tmp) ELSE f
    ELSE IF r.backend = "dotted" THEN RemoveAll(f, r.tmp) ELSE f

\* strings.Replace(locationOnDisk, WriteToPath, ApparentLocation, 1), a
\* leading "//" made "/": locationOnDisk begins with WriteToPath.
newApparentLocation(c, locationOnDisk) ==
    LET replaced == c.ApparentLocation \o TrimPrefix(locationOnDisk, WriteToPath)
    IN IF HasPrefix(replaced, <<"/", "/">>) THEN Tail(replaced) ELSE replaced

\* Header().Set in place of Header().Add: the last Location only.
LocatedLast(c, r) ==
    IF c.ApparentLocation = <<>> THEN r.locations
    ELSE <<newApparentLocation(c, r.final)>>

\* The Location headers of the response after a file has been written:
\* serveHTTP sets the header, serveMultipartUpload adds one.
Located(c, r) ==
    IF c.ApparentLocation = <<>> THEN r.locations
    ELSE IF r.multi THEN Append(r.locations, newApparentLocation(c, r.final))
    ELSE <<newApparentLocation(c, r.final)>>

\* writeFileFromReader returns: its deferred calls run, writeOneHTTPBlob
\* maps the outcome to a status, and serveHTTP or serveMultipartUpload
\* answers or goes on to the next part.
Exit(p) ==
    /\ h[p].pc = "exit"
    /\ LET r == [h[p] EXCEPT !.zaps =
                    IF cfg.Revision = RevProtofile /\ h[p].backend # "none" THEN 1 ELSE 0]
           b == blobResult(r.err, r.written, r.expect)
       IN /\ fs' = Deferred(cfg, fs, r)
          /\ h' = [h EXCEPT ![p] =
                IF r.err = "panic" THEN Answer(r, Panicked)
                ELSE IF overQuota(r.quota, b.bytes)
                     THEN Answer([r EXCEPT !.tx = r.tx + b.bytes], 413)
                ELSE IF b.failed
                     THEN Answer([r EXCEPT !.tx = r.tx + b.bytes], b.status)
                ELSE IF ~r.multi
                     THEN Answer([r EXCEPT !.tx = r.tx + b.bytes,
                                           !.locations = Located(cfg, r)], b.status)
                ELSE [Fresh(r) EXCEPT !.pc = "part", !.idx = r.idx + 1,
                                      !.tx = r.tx + b.bytes,
                                      !.locations = Located(cfg, r)]]
    /\ UNCHANGED <<cfg, nreq, now, clients, auth>>

\* ------------------------------------------------------------ the clients

\* The URL of a path below the scope.
Url(rest) == Scope \o rest

PathA == Url(<<"/", "a">>)                              \* /s/a
PathB == Url(<<"/", "b">>)                              \* /s/b
PathD == Url(<<"/", "d">>)                              \* /s/d
PathDA == Url(<<"/", "d", "/", "a">>)                   \* /s/d/a
PathSiblingX == Url(<<"/", ".", ".", "/", "r", "2", "/", "x">>)   \* /s/../r2/x
PathSiblingK == Url(<<"/", ".", ".", "/", "r", "2", "/", "k">>)   \* /s/../r2/k
PathSibling == Url(<<"/", ".", ".", "/", "r", "2">>)    \* /s/../r2
PathOutside == Url(<<"/", ".", ".", "/", "e">>)         \* /s/../e

\* Requests that exercise the path translation and the races on a name.
PathClients ==
    {Put_(PathA, NoLength, 1), Put_(PathA, NoLength, MaxBody),
     Put_(PathDA, NoLength, 1), Put_(PathD, NoLength, 1),
     Put_(PathA \o <<"/", "x">>, NoLength, 1),
     Put_(PathSiblingX, NoLength, 1), Put_(PathOutside, NoLength, 1),
     Put_(<<"/">>, NoLength, 1),
     Delete_(PathA), Delete_(PathD), Delete_(PathSibling), Delete_(Scope),
     Delete_(Url(<<"/">>)), Delete_(Url(<<"/", "x", "/", ".", ".">>)),
     Move_(PathA, PathB), Move_(PathB, PathA), Move_(PathA, PathSiblingK),
     Move_(PathA, PathA), Move_(PathA, Url(<<"/">>)), Move_(Url(<<"/">>), Scope),
     Copy_(PathA, PathB), Get_(PathA)}

Handlers == [p \in Procs |-> Idle]

\* upload.go with concurrent handlers: WebDAV methods enabled, with and
\* without O_TMPFILE and a quota; WebDAV methods disabled, with and
\* without a next handler; file names restricted to an alphabet.
Init ==
    /\ fs = InitialFs
    /\ cfg \in {Configuration(RevHardlink, MaxProcs, tmpfile, maxFilesize, 0,
                              TRUE, NoSecrets, FALSE, 0) :
                    tmpfile \in BOOLEAN, maxFilesize \in {0, 1}}
               \cup
               {[Configuration(RevHardlink, MaxProcs, TRUE, 0, 0,
                               FALSE, NoSecrets, FALSE, 0) EXCEPT !.Next = next] :
                    next \in BOOLEAN}
               \cup
               {[Configuration(RevHardlink, MaxProcs, TRUE, 0, 0,
                               TRUE, NoSecrets, FALSE, 0)
                    EXCEPT !.RestrictFilenamesTo = SomeLetters]}
    /\ h = Handlers
    /\ nreq = 0
    /\ now = 0
    /\ clients = PathClients
    /\ auth = NoAuthRun

Next ==
    \E p \in Procs :
        \/ ServeRefuse(p) \/ ServeMove(p) \/ ServeDelete(p) \/ ServeUpload(p)
        \/ PartBegin(p) \/ Mkdir(p) \/ CreateTemp(p) \/ CopyAll(p) \/ Link(p)
        \/ Stat(p) \/ Unlink(p) \/ Relink(p) \/ Exit(p)

Spec == Init /\ [][Next]_vars

\* ------------------------------------------------------------------ claims

\* The files an upload put under a final name.
OwnFile(f, p, r) ==
    /\ Exists(f, r.final)
    /\ f[r.final].kind = "file"
    /\ f[r.final].src.up = UploadId(p, r)

\* The temp entries an upload left in the filesystem.
OwnTemps(f, p, r) ==
    {q \in DOMAIN f : f[q].kind = "temp" /\ f[q].owner = UploadId(p, r)}

\* C1: whatever requests are served, nothing outside WriteToPath is
\* created, changed or removed: every path that is not WriteToPath or below
\* it by path components exists exactly when it did before the first
\* request, with the entry it had.
C1_NothingOutsideWriteToPath ==
    \A q \in DOMAIN fs \cup DOMAIN InitialFs :
        ~Under(WriteToPath, q) =>
            /\ q \in DOMAIN fs /\ q \in DOMAIN InitialFs
            /\ fs[q] = InitialFs[q]

\* C2: a file that is visible under a name holds the complete body of the
\* upload that put it there, at every point of every interleaving of the
\* handlers; and while a handler has not finished copying, nothing of its
\* upload is visible under the final name.
C2_AtomicVisibility ==
    /\ \A q \in DOMAIN fs : fs[q].kind = "file" => fs[q].data = fs[q].src.len
    /\ \A p \in Procs :
          h[p].pc \in {"mkdir", "create", "copy", "link"} => ~OwnFile(fs, p, h[p])

\* C2 happens: one upload's complete file is visible under the name while
\* another handler, having read its body, is about to link the same name.
C2_Witness ==
    \E p, q \in Procs :
        /\ p # q
        /\ h[p].pc = "link" /\ h[p].written > 0
        /\ h[q].final = h[p].final
        /\ h[q].pc = "done" /\ h[q].status = 201
        /\ OwnFile(fs, q, h[q])

\* The two handlers have each served one upload of /s/a, these are the only
\* requests there were, no quota was set and no read or write failed.
BothUploadedA ==
    /\ cfg.MaxFilesize = 0
    /\ \A p \in Procs :
          /\ h[p].pc = "done"
          /\ h[p].req.method = "PUT" /\ h[p].req.path = PathA
          /\ h[p].err # ErrIO
    /\ {h[p].id : p \in Procs} = 1..MaxProcs

\* C11: when the handlers upload to the same final name concurrently, then
\* under every interleaving each of them answers 201, and when all have
\* finished the name exists and holds the complete body of one of the
\* uploads (the one that was linked last); none answers with an error, the
\* file is not missing and its contents are not mixed.
C11_LastPersistWins ==
    BothUploadedA =>
        /\ \A p \in Procs : h[p].status = 201
        /\ Exists(fs, FileA)
        /\ fs[FileA].kind = "file"
        /\ \E p \in Procs : fs[FileA].src = Src(p, h[p])
        /\ fs[FileA].data = fs[FileA].src.len

\* The final name of the upload is a directory when the handler is about
\* to link it, to look at it after EEXIST, or to link it again.
NameIsDirectory(f, r) ==
    /\ r.pc \in {"link", "stat", "relink"}
    /\ IsDir(f, r.final)
    /\ r.backend = "tempfile" => Exists(f, r.tmp)

\* The path of the upload needs a directory where something else is.
NeedsDirectoryAtFile(f, r) ==
    /\ r.pc = "mkdir"
    /\ \E q \in Ancestors(r.dirp) \cup {r.dirp} : Exists(f, q) /\ ~IsDir(f, q)

\* f and g hold the same entries apart from the temp file of an upload.
SameButTemps(f, g, up) ==
    /\ DOMAIN g \subseteq DOMAIN f
    /\ \A q \in DOMAIN f :
          IF f[q].kind = "temp" /\ f[q].owner = up
          THEN q \notin DOMAIN g
          ELSE q \in DOMAIN g /\ g[q] = f[q]

\* C12: an upload whose final name is a directory, or whose path needs a
\* directory where a file is, fails with EEXIST or ENOTDIR without changing
\* the filesystem; and the handler answers such a failure with 409, leaving
\* every entry as it was except that the upload's temp file is gone.
C12_ConflictLeavesAllInPlace ==
    [][\A p \in Procs :
          h'[p] # h[p] =>
            /\ NameIsDirectory(fs, h[p]) =>
                  /\ fs' = fs
                  /\ h'[p].pc \in {"stat", "exit"} /\ h'[p].err = ErrExist
            /\ NeedsDirectoryAtFile(fs, h[p]) =>
                  /\ fs' = fs
                  /\ h'[p].pc = "exit" /\ h'[p].err = ErrNotDir
            /\ (h[p].pc = "exit" /\ h[p].err \in {ErrExist, ErrNotDir}) =>
                  /\ h'[p].pc = "done" /\ h'[p].status = 409
                  /\ SameButTemps(fs, fs', UploadId(p, h[p]))]_vars

\* C12 happens: an upload through a named temp file met a directory under
\* its final name and was answered 409; the directory is there, with the
\* file another upload put into it, and the temp file is gone.
C12_Witness ==
    \E p \in Procs :
        /\ h[p].pc = "done" /\ h[p].status = 409
        /\ h[p].backend = "tempfile" /\ h[p].err = ErrExist
        /\ IsDir(fs, h[p].final)
        /\ \E q \in DOMAIN fs : Below(h[p].final, q) /\ fs[q].kind = "file"
        /\ OwnTemps(fs, p, h[p]) = {}

\* A DELETE request that serveHTTP hands to deleteOneFile and whose path,
\* with the scope replaced and cleaned, is WriteToPath.
TargetsWriteToPath(req) ==
    /\ req.method = "DELETE"
    /\ Len(req.path) >= 2
    /\ Clean(Join(WriteToPath, TrimPrefix(req.path, Scope))) = WriteToPath

\* C13: with WebDAV enabled, no DELETE removes WriteToPath; a DELETE whose
\* target is WriteToPath itself (the bare scope, the scope with a trailing
\* slash, a path like x/.. that cleans to it) is answered 403 and leaves
\* the filesystem as it is, when its path passes the file name checks, which
\* come first and answer 422.
C13_DeleteSparesWriteToPath ==
    [][\A p \in Procs :
          (h[p].pc \in {"idle", "done"} /\ h'[p] # h[p]
             /\ cfg.EnableWebdav /\ h'[p].req.method = "DELETE") =>
              /\ Exists(fs', WriteToPath)
              /\ TargetsWriteToPath(h'[p].req) =>
                    /\ h'[p].pc = "done"
                    /\ h'[p].status =
                          IF translateForFilesystem(cfg, h'[p].req.path).err = ErrNone
                          THEN 403 ELSE 422
                    /\ fs' = fs]_vars

\* C13 happens: DELETE /s/x/.. was answered 403 and WriteToPath is there
\* with the file in it.
C13_Witness ==
    \E p \in Procs :
        /\ h[p].pc = "done" /\ h[p].status = 403
        /\ h[p].req.method = "DELETE"
        /\ h[p].req.path = Url(<<"/", "x", "/", ".", ".">>)
        /\ IsDir(fs, WriteToPath) /\ Exists(fs, FileA)

Translated(c, name) ==
    Join(translateForFilesystem(c, name).path, translateForFilesystem(c, name).name)

\* C23: a MOVE from a to b that is answered 201 leaves no entry at a and
\* what was at a at b; when b did not exist before, a MOVE from b to a
\* that follows it is answered 201 and leaves the filesystem as it was
\* before the first MOVE.
C23_MoveAndBack ==
    [][\A p \in Procs :
          (/\ h'[p] # h[p]
           /\ h'[p].pc = "done" /\ h'[p].req.method = "MOVE"
           /\ h'[p].status = 201) =>
              LET a == Translated(cfg, h'[p].req.path)
                  b == Translated(cfg, h'[p].req.dest)
              IN /\ cfg.EnableWebdav
                 /\ ~Exists(fs', a)
                 /\ Exists(fs', b) /\ fs'[b] = fs[a]
                 /\ ~Exists(fs, b) =>
                       moveOneFile(cfg, fs', h'[p].req.dest, h'[p].req.path)
                          = [status |-> 201, fs |-> fs]]_vars

\* C23 happens: /r/a was moved to /r/b, which did not exist, and moved
\* back; both requests were answered 201 and the filesystem is as it was.
C23_Witness ==
    \E p, q \in Procs :
        /\ h[p].pc = "done" /\ h[p].req = Move_(PathA, PathB)
        /\ h[p].status = 201 /\ h[p].id = 1
        /\ h[q].pc = "done" /\ h[q].req = Move_(PathB, PathA)
        /\ h[q].status = 201 /\ h[q].id = 2
        /\ fs = InitialFs

\* C35: with WebDAV methods enabled, a MOVE whose source or destination
\* is translated to WriteToPath is answered 403, also when the two are
\* the same; any other MOVE whose source and destination are translated
\* to the same name is answered 409; neither changes the filesystem.
C35_MoveRefusals ==
    [][\A p \in Procs :
          (/\ h[p].pc \in {"idle", "done"} /\ h'[p] # h[p]
           /\ cfg.EnableWebdav /\ h'[p].req.method = "MOVE"
           /\ translateForFilesystem(cfg, h'[p].req.path).err = ErrNone
           /\ translateForFilesystem(cfg, h'[p].req.dest).err = ErrNone) =>
              LET a == Translated(cfg, h'[p].req.path)
                  b == Translated(cfg, h'[p].req.dest)
              IN /\ (a = WriteToPath \/ b = WriteToPath) =>
                       /\ h'[p].pc = "done" /\ h'[p].status = 403
                       /\ fs' = fs
                 /\ (a = b /\ a # WriteToPath) =>
                       /\ h'[p].pc = "done" /\ h'[p].status = 409
                       /\ fs' = fs]_vars

\* C24: with WebDAV methods enabled, a COPY of an existing file to a
\* Destination inside the scope is answered 201 and the destination
\* holds the contents of the source, which is unchanged.  Stated for the
\* first request, which finds /r/a as it was at the start.
C24_CopyDuplicates ==
    \A p \in Procs :
        (/\ h[p].pc = "done" /\ h[p].req = Copy_(PathA, PathB)
         /\ h[p].id = 1 /\ nreq = 1
         /\ cfg.EnableWebdav) =>
            /\ h[p].status = 201
            /\ Exists(fs, Translated(cfg, PathB))
            /\ fs[Translated(cfg, PathB)] = InitialFile
            /\ fs[FileA] = InitialFile

\* A rune of the name, the scope stripped, is outside the alphabet that
\* is configured.
OutsideAlphabet(c, name) ==
    /\ c.RestrictFilenamesTo # NoAlphabet
    /\ \E i \in 1..Len(TrimPrefix(name, Scope)) :
          TrimPrefix(name, Scope)[i] \notin c.RestrictFilenamesTo

\* C27: with an alphabet configured, the step in which a handler comes to
\* translate a path with a rune outside the alphabet, in a directory name
\* or in the file name, answers 422 and changes nothing in the filesystem:
\* the MOVE or DELETE the handler takes, and the file of an upload that
\* has passed the quota and Content-Length checks.
C27_AlphabetEnforced ==
    [][\A p \in Procs :
          /\ (/\ h[p].pc \in {"idle", "done"} /\ h'[p] # h[p]
              /\ h'[p].req.method \in {"MOVE", "DELETE"}
              /\ Gate(cfg, h'[p].req, now) = 0
              /\ \/ OutsideAlphabet(cfg, h'[p].req.path)
                 \/ /\ h'[p].req.method = "MOVE"
                    /\ OutsideAlphabet(cfg, h'[p].req.dest)) =>
                 /\ fs' = fs
                 /\ h'[p].pc = "done" /\ h'[p].status = 422
          /\ (/\ h[p].pc = "part" /\ h'[p] # h[p]
              /\ h[p].idx <= Len(h[p].parts)
              /\ OutsideAlphabet(cfg, CurPart(h[p]).name)
              /\ ~QuotaOf(cfg, h[p]).exhausted
              /\ preflight(CurPart(h[p]).length, QuotaOf(cfg, h[p]).quota) = 0) =>
                 /\ fs' = fs
                 /\ h'[p].pc = "done" /\ h'[p].status = 422
                 /\ h'[p].nread = 0 /\ h'[p].backend = "none"]_vars

\* C27 happens: with the alphabet of slash, a, b and x the upload to /s/d/a
\* was answered 422 and neither /r/d nor a file in it exists.
C27_Witness ==
    \E p \in Procs :
        /\ cfg.RestrictFilenamesTo = SomeLetters
        /\ h[p].pc = "done" /\ h[p].req = Put_(PathDA, NoLength, 1)
        /\ h[p].status = 422
        /\ ~Exists(fs, WriteToPath \o <<"/", "d">>)

\* C30: the final name gets or changes its contents through a Persist
\* that succeeds only: an upload that has failed, the one whose link met
\* an existing name and whose second link failed included, has taken
\* nothing away from its final name.
C30_FailedPersistKeepsFinalName ==
    \A p \in Procs :
        (h[p].pc = "done" /\ h[p].final # <<>> /\ h[p].err # ErrNone) =>
            h[p].removed = <<>>

\* --------------------------------------------------- quotas and multipart

NameA == <<"a">>
NameB == <<"b">>
NameC == <<"c">>

\* Multipart bodies: the three 64000-byte files of the test; two short
\* bodies that announce 5000 bytes each; small files; files that fill a
\* transaction; a part that announces too much; a part without filename;
\* a part with a rune that is always rejected in its name; a part whose
\* name is the target directory; two parts of the same name; a part whose
\* Content-Length is no number.
MultipartClients ==
    {Multipart_(<<Part(NameA, NoLength, 64000), Part(NameB, NoLength, 64000),
                  Part(NameC, NoLength, 64000)>>),
     Multipart_(<<Part(NameA, 5000, 1), Part(NameB, 5000, 1)>>),
     Multipart_(<<Part(NameA, NoLength, 1), Part(NameB, NoLength, MaxBody)>>),
     Multipart_(<<Part(NameA, NoLength, 5000), Part(NameB, NoLength, 5000)>>),
     Multipart_(<<Part(NameA, NoLength, 1), Part(NameB, 7000, 1)>>),
     Multipart_(<<Part(<<>>, NoLength, 1), Part(NameA, 5000, 5000)>>),
     Multipart_(<<Part(NameA, NoLength, 6000), Part(NameB, NoLength, 1)>>),
     Multipart_(<<Part(NameA, NoLength, 1), Part(<<"*">>, NoLength, 1),
                  Part(NameB, NoLength, 1)>>),
     Multipart_(<<Part(NameA, NoLength, 1), Part(Dot, NoLength, 1),
                  Part(NameB, NoLength, 1)>>),
     Multipart_(<<Part(NameA, NoLength, MaxBody), Part(NameA, NoLength, 1)>>),
     Multipart_(<<Part(NameA, NoLength, 1), Part(NameB, BadLength, 1)>>),
     Multipart_(<<Part(<<"d", "/", "b">>, NoLength, 1)>>),
     [Multipart_(<<Part(NameB, NoLength, 1)>>) EXCEPT !.path = PathD \o <<"/">>]}

\* Single uploads with and without Content-Length, below, at and over the
\* quotas.
SizedClients ==
    {Put_(PathA, NoLength, 1), Put_(PathA, NoLength, MaxBody + 2),
     Put_(PathA, NoLength, 7000), Put_(PathA, 5000, 1),
     Put_(PathB, 5000, 5000), Put_(PathB, 7000, 7000),
     Put_(PathB, BadLength, 1), Put_(PathB, 65000, 1),
     Put_(PathB, 0, 0)}

\* max_filesize and max_transaction_size.
QuotaConfigs ==
    {<<0, 6000>>, <<MaxBody, 0>>, <<5000, 6000>>, <<0, 64000>>, <<5000, 5000>>}

\* apparent_location: not set, a directory, the root.
LocationValues == {<<>>, <<"/", "n">>, <<"/">>}

\* upload.go with one handler, quotas set.
InitQuota ==
    /\ fs = InitialFs
    /\ cfg \in {[Configuration(RevHardlink, 1, TRUE, q[1], q[2],
                               FALSE, NoSecrets, FALSE, 0)
                    EXCEPT !.ApparentLocation = l] :
                    q \in QuotaConfigs, l \in LocationValues}
    /\ h = Handlers
    /\ nreq = 0
    /\ now = 0
    /\ clients = MultipartClients \cup SizedClients
    /\ auth = NoAuthRun

NextQuota ==
    \E p \in Procs :
        \/ ServeUpload(p) \/ ServeMultipart(p)
        \/ PartBegin(p) \/ Mkdir(p) \/ CreateTemp(p) \/ CopyAll(p) \/ Link(p)
        \/ Stat(p) \/ Unlink(p) \/ Relink(p) \/ Exit(p)

SpecQuota == InitQuota /\ [][NextQuota]_vars

RECURSIVE SumSizes(_, _)
SumSizes(f, paths) ==
    IF paths = {} THEN 0
    ELSE LET q == CHOOSE x \in paths : TRUE
         IN f[q].size + SumSizes(f, paths \ {q})

PersistedBy(f, p, id) ==
    {q \in DOMAIN f : f[q].kind = "file" /\ f[q].src.up[1] = p /\ f[q].src.up[2] = id}

\* C9: in a multipart request under max_transaction_size = T > 0 the sizes
\* of the files the request persisted add up to T at most.
C9_TransactionBound ==
    \A p \in Procs :
        (h[p].pc # "idle" /\ h[p].multi /\ cfg.MaxTransactionSize > 0) =>
            SumSizes(fs, PersistedBy(fs, p, h[p].id)) <= cfg.MaxTransactionSize

\* A part announces more than its quota allows.
AnnouncesTooMuch(c, r) ==
    /\ r.pc = "part"
    /\ r.idx <= Len(r.parts)
    /\ ~(r.multi /\ CurPart(r).name = <<>>)
    /\ QuotaOf(c, r).quota > 0
    /\ CurPart(r).length > QuotaOf(c, r).quota

\* C10: the step that meets a Content-Length over the quota answers 413,
\* changes nothing in the filesystem and reads no byte of the body: the
\* handler is done without having entered writeFileFromReader.
C10_PreflightRejects ==
    [][\A p \in Procs :
          (AnnouncesTooMuch(cfg, h[p]) /\ h'[p] # h[p]) =>
              /\ fs' = fs
              /\ h'[p].pc = "done" /\ h'[p].status = 413
              /\ h'[p].nread = 0 /\ h'[p].dirp = <<>> /\ h'[p].backend = "none"]_vars

\* C10 happens: the second part of a multipart body announced too much
\* after the first was written, and the request was answered 413.
C10_Witness ==
    \E p \in Procs :
        /\ h[p].pc = "done" /\ h[p].status = 413
        /\ h[p].multi /\ h[p].idx = 2
        /\ CurPart(h[p]).length > h[p].quota /\ h[p].quota > 0
        /\ h[p].nread = 0 /\ h[p].tx > 0

\* serveMultipartUpload from part i on, with bytesWrittenInTransaction
\* bytes written so far: the status it returns when no read or write fails
\* and no name is taken by a directory.
RECURSIVE partsStatus(_, _, _, _)
partsStatus(c, parts, i, bytesWrittenInTransaction) ==
    IF i > Len(parts) THEN 201
    ELSE IF parts[i].name = <<>>
    THEN partsStatus(c, parts, i + 1, bytesWrittenInTransaction)
    ELSE LET q == partQuota(c, bytesWrittenInTransaction)
             n == IF q.quota > 0 THEN Min(parts[i].body, copyLimit(q.quota))
                  ELSE parts[i].body
         IN IF q.exhausted THEN 413
            ELSE IF preflight(parts[i].length, q.quota) # 0
                 THEN preflight(parts[i].length, q.quota)
            ELSE IF translateForFilesystem(c, parts[i].name).err # ErrNone THEN 422
            ELSE IF overQuota(q.quota, n) THEN 413
            ELSE partsStatus(c, parts, i + 1, bytesWrittenInTransaction + n)

\* serveHTTP for PUT and POST under configuration c: the status it returns
\* when no read or write fails and no name is taken by a directory.
serveStatus(c, req) ==
    IF Gate(c, req, 0) # 0 THEN Gate(c, req, 0)
    ELSE IF req.ctype = "multipart" THEN partsStatus(c, req.parts, 1, 0)
    ELSE LET q == singleQuota(c).quota
             n == IF q > 0 THEN Min(req.body, copyLimit(q)) ELSE req.body
         IN IF preflight(req.length, q) # 0 THEN preflight(req.length, q)
            ELSE IF translateForFilesystem(c, req.path).err # ErrNone THEN 422
            ELSE IF overQuota(q, n) THEN 413
            ELSE blobResult(ErrNone, n, expectBytesOf(req.length)).status

\* Values of max_filesize to compare a deployment's with.
FilesizeValues == {0, 1, MaxBody, 5000, 6000, 64000}

\* A status that tells the client its upload was taken.
Accepted(status) == status \in {201, 202}

\* The handler has answered an upload in which no read or write failed and
\* no name was taken.
Served(r) == r.pc = "done" /\ r.err \notin {ErrIO, ErrExist, ErrNotDir}

\* C19 as stated: a request that the deployment accepted is accepted under
\* every configuration that differs only in a max_filesize that is, as a
\* number, at least as large.
C19_MonotoneInConfiguredValue ==
    \A p \in Procs :
        (Served(h[p]) /\ Accepted(h[p].status)) =>
            \A F \in FilesizeValues :
                cfg.MaxFilesize <= F =>
                    Accepted(serveStatus([cfg EXCEPT !.MaxFilesize = F], h[p].req))

\* max_filesize a allows no more than max_filesize b, 0 being no limit.
AllowsNoMoreThan(a, b) == b = 0 \/ (a # 0 /\ a <= b)

\* C19 amended: the status the handler gave is the one serveHTTP computes
\* for its configuration, and a request it accepted is accepted under
\* every configuration that differs only in a max_filesize that allows at
\* least as much, where 0 allows everything.
C19_MonotoneInLimit ==
    \A p \in Procs :
        Served(h[p]) =>
            /\ h[p].status = serveStatus(cfg, h[p].req)
            /\ Accepted(h[p].status) =>
                  \A F \in FilesizeValues :
                      AllowsNoMoreThan(cfg.MaxFilesize, F) =>
                          Accepted(serveStatus([cfg EXCEPT !.MaxFilesize = F], h[p].req))

\* C19 happens: under max_filesize 5000 an upload of exactly 5000 bytes was
\* accepted, which a smaller limit refuses and a larger one accepts.
C19_Witness ==
    \E p \in Procs :
        /\ Served(h[p]) /\ h[p].status = 201
        /\ cfg.MaxFilesize = 5000 /\ h[p].req.body = 5000
        /\ ~Accepted(serveStatus([cfg EXCEPT !.MaxFilesize = MaxBody], h[p].req))
        /\ Accepted(serveStatus([cfg EXCEPT !.MaxFilesize = 6000], h[p].req))

\* The final name of part i of the multipart request of handler record r.
FinalOf(c, r, i) ==
    LET t == translateForFilesystem(c, r.parts[i].name)
    IN Join(t.path, t.name)

\* C20: when a part of a multipart request has failed, every part with a
\* filename before it is under its final name with its complete body, no
\* file of the failing part or of a later part exists, and the answer is
\* the status of the failing part: the one serveMultipartUpload computes
\* when no read or write failed, 409 for a name conflict, 500 or 507 for
\* a failed read or write.
C20_PartsBeforeFailureStay ==
    \A p \in Procs :
        LET r == h[p]
        IN (r.pc = "done" /\ r.multi /\ r.status >= 400) =>
              /\ r.idx <= Len(r.parts)
              /\ \A i \in 1..(r.idx - 1) :
                    r.parts[i].name # <<>> =>
                        /\ Exists(fs, FinalOf(cfg, r, i))
                        /\ fs[FinalOf(cfg, r, i)].kind = "file"
                        /\ fs[FinalOf(cfg, r, i)].src.up = <<p, r.id, i>>
                        /\ fs[FinalOf(cfg, r, i)].data = r.parts[i].body
              /\ \A q \in DOMAIN fs :
                    (fs[q].kind = "file" /\ fs[q].src.up[1] = p /\ fs[q].src.up[2] = r.id)
                        => fs[q].src.up[3] < r.idx
              /\ IF r.err = ErrIO THEN r.status \in {500, 507}
                 ELSE IF r.err \in {ErrExist, ErrNotDir} THEN r.status = 409
                 ELSE r.status = partsStatus(cfg, r.parts, 1, 0)

\* C20 happens: the second part of three had a name that is rejected; the
\* request was answered 422, the first part's file is there and the third
\* part's is not.
C20_Witness ==
    \E p \in Procs :
        /\ h[p].pc = "done" /\ h[p].multi /\ h[p].status = 422
        /\ h[p].idx = 2 /\ Len(h[p].parts) = 3
        /\ Exists(fs, FileA) /\ fs[FileA].src.up = <<p, h[p].id, 1>>
        /\ ~Exists(fs, WriteToPath \o <<"/", "b">>)

\* A PUT or POST without envelope that announced more than its body holds,
\* within the quota, and whose reads and writes did not fail.
AnnouncedTooLarge(r) ==
    /\ r.pc = "done" /\ ~r.multi /\ r.idx = 1
    /\ r.err = ErrNone
    /\ r.req.length > r.req.body
    /\ r.quota = 0 \/ r.req.length <= r.quota

C22_CreatedHoldsTheBody ==
    \A p \in Procs :
        LET r == h[p]
        IN (r.pc = "done" /\ ~r.multi /\ r.idx = 1 /\ r.status = 201) =>
              /\ r.final = Join(translateForFilesystem(cfg, r.req.path).path,
                                translateForFilesystem(cfg, r.req.path).name)
              /\ OwnFile(fs, p, r)
              /\ fs[r.final].data = r.req.body
              /\ fs[r.final].size = r.req.body

\* C22 happens: a PUT with Content-Length 0 and no body was answered 201
\* and /r/b is a file of length zero.
C22_Witness ==
    \E p \in Procs :
        /\ h[p].pc = "done" /\ h[p].status = 201
        /\ h[p].req = Put_(PathB, 0, 0)
        /\ OwnFile(fs, p, h[p])
        /\ h[p].final = WriteToPath \o <<"/", "b">>
        /\ fs[h[p].final].data = 0 /\ fs[h[p].final].size = 0

\* The Location headers for the parts with a filename among parts 1..n of
\* the request of handler record r, in the order of the parts.
RECURSIVE LocationsOf(_, _, _)
LocationsOf(c, r, n) ==
    IF n = 0 THEN <<>>
    ELSE IF r.parts[n].name = <<>> THEN LocationsOf(c, r, n - 1)
    ELSE Append(LocationsOf(c, r, n - 1), newApparentLocation(c, FinalOf(c, r, n)))

\* C25: with apparent_location set, a multipart request is worked through
\* part by part in the order of arrival, and at every moment the response
\* carries one Location header for each part that has been persisted and
\* returned from, in the order of the parts: the parts before the one the
\* handler is at.  When a part fails the headers of the parts before it
\* stay in the response, and each of those parts is under its final name.
C25_LocationsInOrder ==
    \A p \in Procs :
        LET r == h[p]
        IN (r.pc # "idle" /\ r.multi /\ cfg.ApparentLocation # <<>>) =>
              /\ r.idx \in 1..(Len(r.parts) + 1)
              /\ r.locations = LocationsOf(cfg, r, r.idx - 1)
              /\ r.pc = "done" =>
                    /\ r.idx <= Len(r.parts) <=> r.status # 201
                    /\ \A i \in 1..(r.idx - 1) :
                          r.parts[i].name # <<>> =>
                              /\ Exists(fs, FinalOf(cfg, r, i))
                              /\ fs[FinalOf(cfg, r, i)].kind = "file"
                              /\ fs[FinalOf(cfg, r, i)].src.up[1] = p
                              /\ fs[FinalOf(cfg, r, i)].src.up[2] = r.id
                    /\ \A q \in PersistedBy(fs, p, r.id) : fs[q].src.up[3] < r.idx

\* C25 happens: of three parts the second had a name that is rejected;
\* the response is 422 and carries the Location of the first part only.
C25_Witness ==
    \E p \in Procs :
        /\ h[p].pc = "done" /\ h[p].multi /\ h[p].status = 422
        /\ h[p].idx = 2 /\ Len(h[p].parts) = 3
        /\ cfg.ApparentLocation = <<"/", "n">>
        /\ h[p].locations = << <<"/", "n", "/", "a">> >>

\* Part i is the last part of the request of handler record r that goes
\* to its final name.
LastOfItsName(c, r, i) ==
    /\ r.parts[i].name # <<>>
    /\ \A j \in (i + 1)..Len(r.parts) :
          r.parts[j].name = <<>> \/ FinalOf(c, r, j) # FinalOf(c, r, i)

\* Two parts of the request of handler record r go to the same final name.
RepeatsAName(c, r) ==
    \E i \in 1..Len(r.parts) : r.parts[i].name # <<>> /\ ~LastOfItsName(c, r, i)

\* C26: a multipart request in which two parts carry the same filename,
\* whose reads and writes do not fail and which stays within the quotas,
\* is answered 201, and the file holds the contents of the later part.
C26_LaterPartOverwrites ==
    \A p \in Procs :
        LET r == h[p]
        IN (r.pc = "done" /\ r.err # ErrIO /\ r.multi /\ RepeatsAName(cfg, r)
                /\ partsStatus(cfg, r.parts, 1, 0) = 201) =>
              /\ r.status = 201
              /\ \A i \in 1..Len(r.parts) :
                    LastOfItsName(cfg, r, i) =>
                        /\ Exists(fs, FinalOf(cfg, r, i))
                        /\ fs[FinalOf(cfg, r, i)].kind = "file"
                        /\ fs[FinalOf(cfg, r, i)].src.up = <<p, r.id, i>>
                        /\ fs[FinalOf(cfg, r, i)].data = r.parts[i].body
                        /\ fs[FinalOf(cfg, r, i)].size = r.parts[i].body

\* C26 happens: two parts named a, of three bytes and of one byte, were
\* answered 201, and /r/a holds the one byte of the second part.
C26_Witness ==
    \E p \in Procs :
        /\ h[p].pc = "done" /\ h[p].multi /\ h[p].status = 201
        /\ RepeatsAName(cfg, h[p])
        /\ h[p].parts[1].body = MaxBody /\ h[p].parts[2].body = 1
        /\ fs[FileA].data = 1 /\ fs[FileA].src.up = <<p, h[p].id, 2>>

\* C36: a multipart POST that is answered 201 has written each part with
\* a filename below the directory its URL is translated to, under the
\* part's filename, directories in the filename included.  Stated for a
\* request that is alone, so that nothing else writes the names.
C36_PartGoesBelowTheUrlsDirectory ==
    \A p \in Procs :
        LET r == h[p]
        IN (r.pc = "done" /\ r.multi /\ r.status = 201 /\ nreq = 1) =>
              \A i \in 1..Len(r.parts) :
                  LastOfItsName(cfg, r, i) =>
                      LET target == Clean(Join(Translated(cfg, r.req.path),
                                               r.parts[i].name))
                      IN /\ Exists(fs, target)
                         /\ fs[target].kind = "file"
                         /\ fs[target].src.up = <<p, r.id, i>>

\* C29: a PUT, a POST without envelope or a multipart part whose
\* Content-Length is not a number, or is negative, is answered 411 and
\* nothing of it is written.
C29_MalformedLengthIsLengthRequired ==
    \A p \in Procs :
        LET r == h[p]
        IN (r.pc = "done" /\ r.idx \in 1..Len(r.parts)
                /\ CurPart(r).length = BadLength) =>
              /\ r.status = 411
              /\ r.nread = 0 /\ r.backend = "none"
              /\ ~OwnFile(fs, p, r)

\* min(max_filesize or infinity, max_transaction_size - bytesSoFar or
\* infinity), 0 standing for infinity in the arguments and in the result.
Ceiling(c, bytesSoFar) ==
    IF c.MaxTransactionSize = 0 THEN c.MaxFilesize
    ELSE IF c.MaxFilesize = 0 THEN c.MaxTransactionSize - bytesSoFar
    ELSE Min(c.MaxFilesize, c.MaxTransactionSize - bytesSoFar)

\* max_filesize is a limit that binds: it is set and no larger than what
\* is left of the transaction.
FileBinds(c, bytesSoFar) ==
    /\ c.MaxFilesize > 0
    /\ c.MaxTransactionSize = 0
       \/ c.MaxFilesize <= c.MaxTransactionSize - bytesSoFar

\* C40: in a multipart request under a max_transaction_size, every part
\* that is handed to the writer has a quota above 0 and no larger than
\* what the parts before it left of max_transaction_size.
C40_PartQuotaIsPositive ==
    \A p \in Procs :
        LET r == h[p]
        IN (r.multi /\ cfg.MaxTransactionSize > 0
                /\ r.pc \notin {"idle", "done", "part"}) =>
              /\ r.quota > 0
              /\ r.quota <= cfg.MaxTransactionSize - r.tx

\* C40 happens: the first part took 5000 of the 6000 bytes of the
\* transaction, and the second part is written under a quota of 1000.
C40_Witness ==
    \E p \in Procs :
        /\ h[p].multi /\ h[p].pc = "copy" /\ h[p].idx = 2
        /\ cfg.MaxTransactionSize = 6000 /\ h[p].tx = 5000
        /\ h[p].quota = 1000

\* C32: for every file that is handed to the writer with a quota, in a
\* single upload and in a multipart request alike, the quota is the
\* smaller of max_filesize and of what is left of max_transaction_size,
\* and the error held ready for a breach is errFileTooLarge exactly when
\* max_filesize is a limit that binds, errTransactionTooLarge otherwise.
C32_CeilingAndItsError ==
    \A p \in Procs :
        LET r == h[p]
        IN (r.pc \in {"mkdir", "create", "copy", "link"} /\ r.quota > 0) =>
              /\ r.quota = Ceiling(cfg, r.tx)
              /\ r.qerr = IF FileBinds(cfg, r.tx) THEN "errFileTooLarge"
                          ELSE "errTransactionTooLarge"

\* ------------------------------------------------------- Authenticate alone

\* strconv.FormatUint(n, 10)
RECURSIVE Decimal(_)
Decimal(n) ==
    IF n < 10 THEN <<Digits[n + 1]>>
    ELSE Decimal(n \div 10) \o <<Digits[(n % 10) + 1]>>

KeyK == "k"
SecretK == <<"x">>
KnownSecrets == (KeyK :> SecretK)

\* The headers of a request that the Authorization header may list.
Headers(timestamp, date, token) ==
    ("timestamp" :> timestamp) @@ ("date" :> date) @@ ("token" :> token)

SignatureAuthz(keyId, algorithm, headers, signature) ==
    [kind |-> "sig", keyId |-> keyId, algorithm |-> algorithm,
     headers |-> headers, signature |-> signature]

\* Values of the Timestamp header: instants around the clock's readings,
\* the largest unsigned value, text that is no number, and none.
TimestampValues ==
    {<<>>, <<"x">>, Decimal(1), Decimal(8), Decimal(11), Decimal(TimeMod - 1)}
DateValues == {<<>>, <<"D", "8">>, <<"D", "x">>}
TokenValues == {<<>>, <<"t">>}
HeadersToSignValues ==
    {<<>>, <<"timestamp", "token">>, <<"date", "token">>, <<"token", "timestamp">>}

\* Signatures a client may send over a message: none, the one made with the
\* secret of KeyK, one made with the empty secret, one made with another
\* secret.
SignatureValues(message) ==
    {<<>>, Hmac(SecretK, message), Hmac(<<>>, message), Hmac(<<"y">>, message)}

AuthorizationValues(headers) ==
    {[kind |-> "none"], [kind |-> "malformed"]} \cup
    UNION {{SignatureAuthz(keyId, algorithm, hs, sig) :
                sig \in SignatureValues(
                           SignedMessage(IF hs = <<>> THEN DefaultHeadersToSign ELSE hs,
                                         1, headers))} :
            keyId \in {KeyK, "u"}, algorithm \in {"", "hmac-sha256", "md5"},
            hs \in HeadersToSignValues}

\* One call of Authenticate on any of these inputs.
InitAuth ==
    /\ fs = InitialFs
    /\ cfg = Configuration(RevProtofile, 0, TRUE, 0, 0, TRUE, KnownSecrets, FALSE, 2)
    /\ h = Handlers
    /\ nreq = 0
    /\ now \in {1, 8}
    /\ clients = {}
    /\ \E timestamp \in TimestampValues, date \in DateValues, token \in TokenValues,
          secrets \in {NoSecrets, KnownSecrets} :
          \E authz \in AuthorizationValues(Headers(timestamp, date, token)) :
              auth = [result |-> 0, steps |-> <<>>, authz |-> authz,
                      headers |-> Headers(timestamp, date, token),
                      secrets |-> secrets, timeTolerance |-> 2]

\* Authenticate(headers, secrets, timestampRecv, timeTolerance) returns.
AuthenticateCall ==
    /\ auth.result = 0
    /\ auth' = [auth EXCEPT
                   !.result = Authenticate(auth.authz, auth.headers, auth.secrets,
                                           now, auth.timeTolerance),
                   !.steps = AuthenticateSteps(auth.authz, auth.headers, auth.secrets,
                                               now, auth.timeTolerance)]
    /\ UNCHANGED <<fs, cfg, h, nreq, now, clients>>

NextAuth == AuthenticateCall

SpecAuth == InitAuth /\ [][NextAuth]_vars

\* The call of Authenticate has returned.
Returned == auth.result # 0

\* The headers the Authorization header of the call lists.
Listed == ParsedHeadersToSign(auth.authz)

\* The request gets as far as the lookup of the key: the Authorization
\* header is a Signature one with a signature, the algorithm and the listed
\* headers are the supported ones, and the listed headers are set and fresh.
ReachesKeyLookup ==
    /\ DOMAIN auth.secrets # {}
    /\ auth.authz.kind = "sig"
    /\ auth.authz.signature # <<>>
    /\ ParsedAlgorithm(auth.authz) = "hmac-sha256"
    /\ Listed \in {<<"timestamp", "token">>, <<"date", "token">>}
    /\ CheckFormal(auth.authz, auth.headers, now, auth.timeTolerance) = "ok"

\* The signature is the HMAC, under the secret of the key the request
\* names, of the concatenated values of the listed headers.
SignatureMatches ==
    /\ auth.authz.keyId \in DOMAIN auth.secrets
    /\ auth.authz.signature =
          Hmac(auth.secrets[auth.authz.keyId], SignedMessage(Listed, 1, auth.headers))

\* C6: Authenticate lets a request pass only if its key id is configured
\* and its signature is the HMAC of that key's secret over the listed
\* headers' values; a request that reaches the key lookup with an unknown
\* key id, whatever its signature, or with another signature, gets 403.
C6_OnlyMatchingSignature ==
    Returned =>
        /\ auth.result = 200 => (auth.authz.kind = "sig" /\ SignatureMatches)
        /\ (ReachesKeyLookup /\ ~SignatureMatches) => auth.result = 403

\* C6 happens: the key id is unknown and the signature is the HMAC under
\* the empty secret, which is what the lookup yields for an unknown key.
C6_Witness ==
    /\ Returned
    /\ ReachesKeyLookup
    /\ auth.authz.keyId \notin DOMAIN auth.secrets
    /\ auth.authz.signature = Hmac(<<>>, SignedMessage(Listed, 1, auth.headers))
    /\ auth.result = 403

\* The instant the request's first listed header denotes, when that header
\* is Timestamp with a number in it or Date with a date in it.
HasInstant ==
    /\ auth.authz.kind = "sig"
    /\ auth.authz.signature # <<>>
    /\ ParsedAlgorithm(auth.authz) = "hmac-sha256"
    /\ Listed \in {<<"timestamp", "token">>, <<"date", "token">>}
    /\ HeaderGet(auth.headers, "token") # <<>>
    /\ LET v == HeaderGet(auth.headers, Listed[1])
       IN IF Listed[1] = "timestamp"
          THEN v # <<>> /\ \A i \in 1..Len(v) : IsDigit(v[i])
          ELSE IsHTTPDate(v)

Instant ==
    LET v == HeaderGet(auth.headers, Listed[1])
    IN IF Listed[1] = "timestamp" THEN DecimalValue(v, 1, 0) ELSE HTTPDateUnix(v)

\* C7: a request whose instant is further than the tolerance from the
\* server's clock, before or after it, gets 403 whatever its signature is.
C7_StaleIsForbidden ==
    (Returned /\ DOMAIN auth.secrets # {} /\ HasInstant
       /\ Distance(now, Instant) > auth.timeTolerance)
    => auth.result = 403

\* The parsed Authorization header names another algorithm, carries no
\* signature, or lists headers that do not begin with timestamp or date
\* followed by token.
Unsupported ==
    /\ auth.authz.kind = "sig"
    /\ \/ ParsedAlgorithm(auth.authz) # "hmac-sha256"
       \/ auth.authz.signature = <<>>
       \/ Len(Listed) < 2
       \/ Listed[1] \notin {"timestamp", "date"}
       \/ Listed[2] # "token"

OtherKey == [auth.authz EXCEPT !.keyId = IF auth.authz.keyId = KeyK THEN "u" ELSE KeyK]

\* C34: a call that reaches the signature check looks the key up and
\* computes and compares the MAC whether or not the key is known; when
\* the signature is not that of a configured key the answer is 403, and
\* the same request under the other key id, known for unknown, goes
\* through the same calls and gets the same answer unless its signature
\* is the right one for that key.
C34_UnknownKeyLooksLikeWrongSignature ==
    (Returned /\ ReachesKeyLookup) =>
        /\ auth.steps = <<"Parse", "CheckFormal", "secrets[a.KeyID]", "SatisfiedBy">>
        /\ ~SignatureMatches => auth.result = 403
        /\ AuthenticateSteps(OtherKey, auth.headers, auth.secrets,
                             now, auth.timeTolerance) = auth.steps
        /\ (/\ ~SignatureMatches
            /\ ~(/\ OtherKey.keyId \in DOMAIN auth.secrets
                 /\ SatisfiedBy(OtherKey, auth.headers, auth.secrets[OtherKey.keyId]))) =>
              Authenticate(OtherKey, auth.headers, auth.secrets,
                           now, auth.timeTolerance) = auth.result

\* C34 happens: a request with an unknown key id went through the MAC and
\* got 403, as the same request does with the known key id, whose
\* signature it does not carry.
C34_Witness ==
    /\ Returned /\ ReachesKeyLookup
    /\ auth.authz.keyId \notin DOMAIN auth.secrets
    /\ auth.authz.signature = Hmac(<<"y">>, SignedMessage(Listed, 1, auth.headers))
    /\ auth.steps[4] = "SatisfiedBy" /\ auth.result = 403
    /\ Authenticate(OtherKey, auth.headers, auth.secrets, now, auth.timeTolerance) = 403

\* C18: Authenticate answers 401 when the Authorization header lists the
\* signed headers in the wrong order (token before timestamp) or names an
\* algorithm other than hmac-sha256.
C18_WrongOrderOrAlgorithmIsUnauthorized ==
    (Returned /\ DOMAIN auth.secrets # {} /\ auth.authz.kind = "sig"
       /\ auth.authz.signature # <<>>
       /\ (Listed = <<"token", "timestamp">>
           \/ ParsedAlgorithm(auth.authz) # "hmac-sha256"))
    => auth.result = 401

\* ------------------------------------------- part_012: protofile and auth

\* The clock of the server in the deployments with authentication, and the
\* tolerance configured there.
ServerTime == 8
Tolerance == 2

\* A request signed with the secret of KeyK at the instant given.
SignedAt(req, instant, secret) ==
    Signed(req,
           SignatureAuthz(KeyK, "", <<>>, Hmac(secret, Decimal(instant) \o <<"t">>)),
           Headers(Decimal(instant), <<>>, <<"t">>))

\* Unsigned requests: small and large bodies, a body announced large
\* enough to be reserved, a name that is a directory, WebDAV methods.
ProtoClients ==
    {Put_(PathA, NoLength, 1), Put_(PathA, NoLength, 40000),
     Put_(PathB, 40000, 40000), Put_(PathDA, NoLength, 1),
     Put_(PathD, NoLength, 1),
     Delete_(PathA), Move_(PathA, PathB), Copy_(PathA, PathB), Get_(PathA)}

\* The same signed well, signed with another secret, and signed well but
\* too long ago.
SignedClients ==
    UNION {{SignedAt(req, ServerTime, SecretK), SignedAt(req, ServerTime, <<"y">>),
            SignedAt(req, ServerTime - Tolerance - 1, SecretK)} :
           req \in {Put_(PathA, NoLength, 1), Delete_(PathA)}}

\* Requests whose Authorization header is "Signature" with nothing Parse
\* can read, names another algorithm, lists the headers in the other order,
\* or names a key that is not configured.
FaultyClients ==
    LET stamp == Decimal(ServerTime)
        sent == Headers(stamp, <<>>, <<"t">>)
    IN {Signed(Delete_(PathA), [kind |-> "malformed"], NoHeaders),
        Signed(Delete_(PathA),
               SignatureAuthz(KeyK, "md5", <<>>, Hmac(SecretK, stamp \o <<"t">>)), sent),
        Signed(Delete_(PathA),
               SignatureAuthz(KeyK, "", <<"token", "timestamp">>,
                              Hmac(SecretK, <<"t">> \o stamp)), sent),
        Signed(Delete_(PathA),
               SignatureAuthz("u", "", <<>>, Hmac(<<>>, stamp \o <<"t">>)), sent)}

\* tmpfile support, max_filesize, WebDAV, secrets, silent_auth_errors.
ProtoConfigs ==
    {<<TRUE, 0, TRUE, NoSecrets, FALSE>>,
     <<FALSE, MaxBody, TRUE, NoSecrets, FALSE>>,
     <<TRUE, MaxBody, FALSE, NoSecrets, FALSE>>,
     <<TRUE, 0, TRUE, KnownSecrets, FALSE>>,
     <<FALSE, 0, TRUE, KnownSecrets, TRUE>>,
     <<FALSE, 0, FALSE, NoSecrets, TRUE>>}

\* part_012 with protofile and, in some deployments, authentication.
InitProto ==
    /\ fs = InitialFs
    /\ cfg \in {Configuration(RevProtofile, MaxProcs, c[1], c[2], 0, c[3], c[4], c[5],
                              Tolerance) : c \in ProtoConfigs}
    /\ h = Handlers
    /\ nreq = 0
    /\ now = ServerTime
    /\ clients = ProtoClients \cup SignedClients \cup FaultyClients
    /\ auth = NoAuthRun

NextProto ==
    \E p \in Procs :
        \/ ServeRefuse(p) \/ ServeMove(p) \/ ServeDelete(p) \/ ServeUpload(p)
        \/ PartBegin(p) \/ Mkdir(p) \/ IntentNew(p) \/ CopyChunk(p)
        \/ Link(p) \/ PersistRename(p)
        \/ Stat(p) \/ Unlink(p) \/ Relink(p) \/ Exit(p)

SpecProto == InitProto /\ [][NextProto]_vars

\* writeFileFromReader got a ProtoFile from IntentNew and returned an error.
FailedAfterIntentNew(r) ==
    r.pc = "done" /\ r.backend # "none" /\ r.err # ErrNone

C4_ExactlyOneOfPersistAndZap ==
    \A p \in Procs :
        (h[p].pc = "done" /\ h[p].backend # "none") =>
            h[p].persists + h[p].zaps = 1

\* The answer serveHTTP gives a request that does not pass Authenticate.
Unauthenticated(c, req, t) ==
    /\ DOMAIN c.IncomingHmacSecrets # {}
    /\ Authenticate(req.authz, req.headers, c.IncomingHmacSecrets, t,
                    c.TimestampTolerance) # 200

\* C5: with secrets configured, the step that takes a request which does
\* not pass Authenticate leaves the filesystem as it is and ends the
\* request: with the answer of the classification when that refuses the
\* method, else with the next handler's answer under silent_auth_errors,
\* else with the status of Authenticate; the dispatch is not reached.
C5_AuthBeforeDispatch ==
    [][\A p \in Procs :
          (h[p].pc \in {"idle", "done"} /\ h'[p] # h[p]
             /\ Unauthenticated(cfg, h'[p].req, now)) =>
              /\ fs' = fs
              /\ h'[p].pc = "done"
              /\ h'[p].status =
                    IF Classify(cfg, h'[p].req) # 0 THEN Classify(cfg, h'[p].req)
                    ELSE IF cfg.SilenceAuthErrors THEN Delegated
                    ELSE Authenticate(h'[p].req.authz, h'[p].req.headers,
                                      cfg.IncomingHmacSecrets, now,
                                      cfg.TimestampTolerance)]_vars

\* C5 happens: a DELETE signed with the wrong secret was answered 403 and
\* the file it names is still there.
C5_Witness ==
    \E p \in Procs :
        /\ h[p].pc = "done" /\ h[p].status = 403
        /\ h[p].req.method = "DELETE"
        /\ h[p].req.authz.kind = "sig"
        /\ DOMAIN cfg.IncomingHmacSecrets # {}
        /\ Exists(fs, FileA)

\* The handler has answered a request that passed the first switch, with
\* secrets configured and silent_auth_errors off.
AnsweredUnderAuth(r) ==
    /\ r.pc = "done"
    /\ DOMAIN cfg.IncomingHmacSecrets # {}
    /\ ~cfg.SilenceAuthErrors
    /\ Classify(cfg, r.req) = 0

\* C15 as stated: a request whose Authorization header is missing or cannot
\* be parsed as a Signature header is answered 401 with the response header
\* WWW-Authenticate: Signature.
C15_UnparseableIsUnauthorized ==
    \A p \in Procs :
        (AnsweredUnderAuth(h[p]) /\ h[p].req.authz.kind \in {"none", "malformed"}) =>
            h[p].status = 401 /\ h[p].challenge

\* C15 amended: a request without Authorization header, or with one of
\* another scheme than Signature, is answered 401 with WWW-Authenticate:
\* Signature; a header that begins with Signature and cannot be parsed is
\* answered 400 without that response header.
C15_MissingIsUnauthorized ==
    \A p \in Procs :
        AnsweredUnderAuth(h[p]) =>
            /\ h[p].req.authz.kind = "none" => (h[p].status = 401 /\ h[p].challenge)
            /\ h[p].req.authz.kind = "malformed" => (h[p].status = 400 /\ ~h[p].challenge)

\* C15 happens: both kinds of request have been answered, one with the
\* challenge and one without.
C15_Witness ==
    \E p, q \in Procs :
        /\ AnsweredUnderAuth(h[p]) /\ AnsweredUnderAuth(h[q])
        /\ h[p].req.authz.kind = "none" /\ h[p].status = 401 /\ h[p].challenge
        /\ h[q].req.authz.kind = "malformed" /\ h[q].status = 400 /\ ~h[q].challenge

\* C16: with no secrets configured, the step that takes a PUT or POST, or
\* with WebDAV enabled a COPY, MOVE or DELETE, dispatches it whatever
\* Authorization, Timestamp and Token headers it has: the answer and the
\* effect are those of the second switch and of the routine it calls.
C16_NoSecretsNoAuth ==
    [][\A p \in Procs :
          (h[p].pc \in {"idle", "done"} /\ h'[p] # h[p]
             /\ DOMAIN cfg.IncomingHmacSecrets = {}
             /\ h'[p].req.method \in {"PUT", "POST", "COPY", "MOVE", "DELETE"}
             /\ Classify(cfg, h'[p].req) = 0) =>
              LET req == h'[p].req
              IN IF Refusal(cfg, req) # 0
                 THEN h'[p].status = Refusal(cfg, req) /\ fs' = fs
                 ELSE CASE req.method = "DELETE" ->
                             /\ h'[p].status = deleteOneFile(cfg, fs, req.path).status
                             /\ fs' = deleteOneFile(cfg, fs, req.path).fs
                        [] req.method = "MOVE" ->
                             /\ h'[p].status = moveOneFile(cfg, fs, req.path, req.dest).status
                             /\ fs' = moveOneFile(cfg, fs, req.path, req.dest).fs
                        [] OTHER -> h'[p].pc = "part"]_vars

\* C16 happens: with no secrets configured, an upload whose signature was
\* made with a secret nobody configured was written.
C16_Witness ==
    \E p \in Procs :
        /\ DOMAIN cfg.IncomingHmacSecrets = {}
        /\ h[p].pc = "done" /\ h[p].status = 201
        /\ h[p].req = SignedAt(Put_(PathA, NoLength, 1), ServerTime, <<"y">>)
        /\ OwnFile(fs, p, h[p])

\* C17: under silent_auth_errors the step that takes a request which does
\* not pass Authenticate, whatever the failure is, hands it to the next
\* handler: this handler sets no status and no WWW-Authenticate header and
\* leaves the filesystem as it is, so every failure looks the same.
C17_SilentFailuresLookAlike ==
    [][\A p \in Procs :
          (h[p].pc \in {"idle", "done"} /\ h'[p] # h[p]
             /\ cfg.SilenceAuthErrors
             /\ Unauthenticated(cfg, h'[p].req, now)) =>
              /\ h'[p].pc = "done"
              /\ h'[p].status = Delegated
              /\ ~h'[p].challenge
              /\ fs' = fs]_vars

\* C17 happens: under silent_auth_errors a request without Authorization
\* header and one signed with a wrong secret both went to the next handler.
C17_Witness ==
    \E p, q \in Procs :
        /\ cfg.SilenceAuthErrors /\ DOMAIN cfg.IncomingHmacSecrets # {}
        /\ h[p].pc = "done" /\ h[p].status = Delegated
        /\ h[p].req.authz.kind = "none" /\ h[p].req.method = "PUT"
        /\ h[q].pc = "done" /\ h[q].status = Delegated
        /\ h[q].req = SignedAt(Delete_(PathA), ServerTime, <<"y">>)
        /\ ~h[p].challenge /\ ~h[q].challenge

\* C28: when the body stream fails in the middle of an upload, after any
\* number of chunks, the handler reads no further; its next step returns
\* from writeFileFromReader, where Zap discards the ProtoFile that was
\* never persisted, and answers 500 or 507.  No temp entry of the upload
\* is left, no file of the upload is under the final name, and what was
\* under the final name before is there as it was.
C28_FailedStreamDiscards ==
    [][\A p \in Procs :
          /\ (h[p].pc = "copy" /\ h'[p].err = ErrIO) =>
                 /\ h'[p].pc = "exit" /\ h'[p].written = h[p].written
                 /\ fs' = fs
          /\ (h[p].pc = "exit" /\ h[p].err = ErrIO /\ h'[p] # h[p]) =>
                 /\ h'[p].pc = "done" /\ h'[p].status \in {500, 507}
                 /\ h'[p].zaps = 1 /\ h'[p].persists = 0
                 /\ OwnTemps(fs', p, h'[p]) = {}
                 /\ ~OwnFile(fs', p, h'[p])
                 /\ Exists(fs', h[p].final) <=> Exists(fs, h[p].final)
                 /\ Exists(fs, h[p].final) => fs'[h[p].final] = fs[h[p].final]]_vars

\* C28 happens: the body failed in its second chunk while the upload wrote
\* to a named temp file; the handler has answered 500 and the temp file
\* is gone.
C28_Witness ==
    \E p \in Procs :
        /\ h[p].pc = "done" /\ h[p].err = ErrIO /\ h[p].status = 500
        /\ h[p].backend = "dotted" /\ h[p].tmp # <<>>
        /\ h[p].nread >= reportProgressEveryBytes
        /\ h[p].written = reportProgressEveryBytes
        /\ ~Exists(fs, h[p].tmp)
        /\ ~OwnFile(fs, p, h[p])

ReturnsNil(c, r, t) ==
    \/ r.status \in {201, 202, 204}
    \/ r.req.method = "COPY" /\ r.status = 501
    \/ /\ r.req.method \in {"MOVE", "DELETE"} /\ r.status \in {403, 409}
       /\ Gate(c, r.req, t) = 0

\* ServeHTTP after serveHTTP returned: what goes to the client.  upload.go
\* writes the status with or without the error's text.  setup_else.go
\* writes a status of 400 and above only, with err.Error(), which panics
\* on a nil error; below 400 it writes nothing and net/http answers 200.
ServeHTTP(c, r, t) ==
    IF r.status \in {Delegated, Panicked} THEN r.status
    ELSE IF c.Revision = RevHardlink THEN r.status
    ELSE IF r.status >= 400
    THEN IF ReturnsNil(c, r, t) THEN Panicked ELSE r.status
    ELSE 200

\* C38: a request the handler is done with went to the next handler or
\* was answered with the status serveHTTP chose, 201 after a successful
\* PUT, and 403, 409 or 501 where serveHTTP returns no error value; no
\* request is left without an answer.
C38_RespondsAsDispatched ==
    \A p \in Procs :
        h[p].pc = "done" =>
            /\ h[p].status # Panicked
            /\ ServeHTTP(cfg, h[p], now) = h[p].status

\* C37: once IntentNew has opened the file, writeFileFromReader goes on
\* to copy the body whether or not SizeWillBe could reserve the announced
\* size: the step ends at the copy loop without an error.
C37_FailedReservationGoesOn ==
    [][\A p \in Procs :
          (/\ h[p].pc = "create" /\ h'[p] # h[p]
           /\ cfg.Revision = RevProtofile
           /\ h'[p].backend # "none") =>
              /\ h'[p].pc = "copy"
              /\ h'[p].err = ErrNone]_vars

\* ------------------------------------------- IncomingHmacSecretsLock

\* One argument of AddHmacSecrets: key=base64(value), or a tuple that
\* cannot be split or decoded.
Tuple(key, value) == [key |-> key, value |-> value, ok |-> TRUE]
BadTuple == [key |-> "", value |-> <<>>, ok |-> FALSE]

\* The calls of AddHmacSecrets: a new secret for the known key and a new
\* key; the same with a bad tuple in between; the known key as it is.
TupleValues ==
    {<<Tuple(KeyK, <<"y">>), Tuple("u", SecretK)>>,
     <<Tuple(KeyK, <<"y">>), BadTuple, Tuple("u", SecretK)>>,
     <<Tuple(KeyK, SecretK)>>}

\* Requests that serveHTTP answers without touching the filesystem:
\* unsigned, signed with the secret configured at the start, signed with
\* the secret that AddHmacSecrets brings.
LockClients ==
    {Copy_(PathA, PathB), Get_(PathA),
     SignedAt(Copy_(PathA, PathB), ServerTime, SecretK),
     SignedAt(Copy_(PathA, PathB), ServerTime, <<"y">>)}

\* IncomingHmacSecretsLock, a sync.RWMutex: who holds it for reading,
\* whether it is held for writing, whether a Lock call waits for it.
NoLock == [readers |-> {}, writer |-> FALSE, pending |-> FALSE]

\* An RLock that gets through whatever the writer does.
CanRLockAlways(lock) == TRUE

\* RLock gets through unless the lock is held for writing or a Lock call
\* waits for it.
CanRLock(lock) == ~lock.writer /\ ~lock.pending

\* Lock gets through when nobody holds the lock.
CanLock(lock) == lock.readers = {} /\ ~lock.writer

\* m[key] = value.
Insert(m, key, value) ==
    [k \in DOMAIN m \cup {key} |-> IF k = key THEN value ELSE m[k]]

InitLock ==
    /\ fs = InitialFs
    /\ cfg \in {Configuration(RevProtofile, MaxProcs, TRUE, 0, 0, webdav, secrets,
                              silence, Tolerance) :
                    webdav \in BOOLEAN, secrets \in {NoSecrets, KnownSecrets},
                    silence \in BOOLEAN}
    /\ h = Handlers
    /\ nreq = 0
    /\ now = ServerTime
    /\ clients = LockClients
    /\ auth \in {[lock |-> NoLock, wpc |-> "idle", tuples |-> t, idx |-> 1] :
                    t \in TupleValues}

\* serveHTTP, the first switch: it answers, or goes on to RLock.
LockReceive(p) ==
    \E req \in clients :
        /\ Accepts(p, req)
        /\ h' = [h EXCEPT ![p] =
                    IF Classify(cfg, req) # 0
                    THEN Answer(Taken(p, req), Classify(cfg, req))
                    ELSE [Taken(p, req) EXCEPT !.pc = "rlock"]]
        /\ nreq' = nreq + 1
        /\ UNCHANGED <<fs, cfg, now, clients, auth>>

\* config.IncomingHmacSecretsLock.RLock()
RLock(p) ==
    /\ h[p].pc = "rlock"
    /\ CanRLock(auth.lock)
    /\ auth' = [auth EXCEPT !.lock.readers = @ \cup {p}]
    /\ h' = [h EXCEPT ![p].pc = "auth"]
    /\ UNCHANGED <<fs, cfg, nreq, now, clients>>

\* len(config.IncomingHmacSecrets) > 0 and auth.Authenticate.
AuthenticateLocked(p) ==
    /\ h[p].pc = "auth"
    /\ h' = [h EXCEPT ![p] = [h[p] EXCEPT
                !.pc = "runlock",
                !.status = AuthGate(cfg, h[p].req, now),
                !.challenge = AuthGateLoud(cfg, h[p].req, now) = 401
                                 /\ ~cfg.SilenceAuthErrors]]
    /\ UNCHANGED <<fs, cfg, nreq, now, clients, auth>>

\* RUnlock, on the path of the refusal and on the path that goes on, and
\* the rest of serveHTTP: the answer of Authenticate, nextFn, or the
\* second switch.
RUnlock(p) ==
    /\ h[p].pc = "runlock"
    /\ auth' = [auth EXCEPT !.lock.readers = @ \ {p}]
    /\ h' = [h EXCEPT ![p] =
                Answer(h[p], IF h[p].status # 0 THEN h[p].status
                             ELSE Refusal(cfg, h[p].req))]
    /\ UNCHANGED <<fs, cfg, nreq, now, clients>>

\* AddHmacSecrets is called: Lock() begins to wait.
AddHmacSecrets ==
    /\ auth.wpc = "idle"
    /\ auth' = [auth EXCEPT !.wpc = "lock", !.lock.pending = TRUE]
    /\ UNCHANGED <<fs, cfg, h, nreq, now, clients>>

\* Lock() returns.
LockAcquire ==
    /\ auth.wpc = "lock"
    /\ CanLock(auth.lock)
    /\ auth' = [auth EXCEPT !.wpc = "insert", !.lock.pending = FALSE,
                            !.lock.writer = TRUE]
    /\ UNCHANGED <<fs, cfg, h, nreq, now, clients>>

\* One round of the loop: c.IncomingHmacSecrets[p[0]] = binary.
InsertTuple ==
    /\ auth.wpc = "insert"
    /\ auth.idx <= Len(auth.tuples)
    /\ auth.tuples[auth.idx].ok
    /\ cfg' = [cfg EXCEPT !.IncomingHmacSecrets =
                  Insert(@, auth.tuples[auth.idx].key, auth.tuples[auth.idx].value)]
    /\ auth' = [auth EXCEPT !.idx = @ + 1]
    /\ UNCHANGED <<fs, h, nreq, now, clients>>

\* The return at the end of the loop or at a tuple that cannot be
\* decoded, and the deferred Unlock().
Unlock ==
    /\ auth.wpc = "insert"
    /\ IF auth.idx > Len(auth.tuples) THEN TRUE ELSE ~auth.tuples[auth.idx].ok
    /\ auth' = [auth EXCEPT !.wpc = "done", !.lock.writer = FALSE]
    /\ UNCHANGED <<fs, cfg, h, nreq, now, clients>>

NextLock ==
    \/ \E p \in Procs :
          \/ LockReceive(p) \/ RLock(p) \/ AuthenticateLocked(p) \/ RUnlock(p)
    \/ AddHmacSecrets \/ LockAcquire \/ InsertTuple \/ Unlock

\* A goroutine that can run does run: a handler that holds the lock goes
\* on to release it, and the Lock call that can return does.
SpecLock ==
    /\ InitLock /\ [][NextLock]_vars
    /\ \A p \in Procs : WF_vars(AuthenticateLocked(p)) /\ WF_vars(RUnlock(p))
    /\ WF_vars(LockAcquire) /\ WF_vars(InsertTuple) /\ WF_vars(Unlock)

\* C39: a handler reads the secrets only while it holds the lock for
\* reading and AddHmacSecrets is not in its loop; a handler that is not
\* between RLock and RUnlock does not hold the lock, whatever way it
\* left; and a call of AddHmacSecrets that waits for the lock gets it
\* and returns.
C39_SecretsReadUnderTheLock ==
    /\ [][\A p \in Procs :
            (h[p].pc = "auth" /\ h'[p] # h[p]) =>
                /\ p \in auth.lock.readers
                /\ ~auth.lock.writer
                /\ auth.wpc # "insert"]_vars
    /\ [](\A p \in Procs :
            h[p].pc \notin {"auth", "runlock"} => p \notin auth.lock.readers)
    /\ [](auth.lock.writer => auth.lock.readers = {})
    /\ (auth.wpc = "lock") ~> (auth.wpc = "done")

\* C39 happens: AddHmacSecrets has replaced the secret of the known key
\* while requests came in; of two requests signed with the old secret the
\* one that held the lock before the update passed and got the 501 of
\* COPY, the one after it was refused with 403; the lock is free.
C39_Witness ==
    \E p, q \in Procs :
        /\ auth.wpc = "done" /\ auth.lock = NoLock
        /\ cfg.IncomingHmacSecrets[KeyK] = <<"y">>
        /\ "u" \in DOMAIN cfg.IncomingHmacSecrets
        /\ h[p].pc = "done" /\ h[q].pc = "done"
        /\ h[p].req = SignedAt(Copy_(PathA, PathB), ServerTime, SecretK)
        /\ h[q].req = h[p].req
        /\ h[p].status = 501 /\ h[q].status = 403

====
